---------------------------- MODULE Spec2Model ----------------------------
(***************************************************************************)
(* Model of the toronto-map viewer.                                        *)
(*                                                                         *)
(*   SpecViewport  the map page's parcel loading: the map 'load' handler,  *)
(*                 the debounced 'moveend' handler, its timer, loadParcels *)
(*                 and the arrival of /api/parcels responses               *)
(*                 (src/src/app/page.tsx).                                 *)
(*   SpecApi       one request to one of the HTTP query endpoints, from    *)
(*                 its arrival to its response (src/src/app/api).          *)
(*                                                                         *)
(* Zoom levels are integers in thousandths of a zoom level (12000 is zoom  *)
(* 12); times are milliseconds.                                            *)
(***************************************************************************)
EXTENDS Integers, Sequences, FiniteSets, TLC

(* ----------------------------------------------------------------------- *)
(* Program constants                                                       *)
(* ----------------------------------------------------------------------- *)

\* page.tsx:38  const MIN_Z = 10
MIN_Z == 10

\* page.tsx:39  const DEBOUNCE_MS = 500
DEBOUNCE_MS == 500

\* parcels/route.ts:18  parseZoom clamps the zoom to [0, 22]
MAX_ZOOM == 22

(* ----------------------------------------------------------------------- *)
(* Bounds of the model                                                     *)
(* ----------------------------------------------------------------------- *)

\* number of 'moveend' events the environment produces
MaxMoves == 3

\* number of distinct bounding boxes the map can show
MaxBbox == 2

\* number of clicks on parcels the user makes
MaxClicks == 2

\* number of clicks on a row of the address table the user makes
MaxRowClicks == 2

\* number of close signals ('close-table', the popup's close button)
MaxCloses == 1

\* number of 'select-parcel' events the search control emits
MaxSelects == 1

\* number of times the page is unmounted and mounted again
MaxRemounts == 1

\* number of changes of the search input
MaxInputs == 4

\* clicks on a parcel of the nearby page
MaxNbClicks == 2

\* calls of clearParcelSelection on the nearby page
MaxNbClears == 1

\* calls of on, off and emit of the event bus
MaxBusOps == 5

\* the clock advances in steps of half the debounce window
TickStep == DEBOUNCE_MS \div 2

\* zoom levels the map can be at, in thousandths: below and above MIN_Z
Zooms == {9000, 12000}

Views == [z : Zooms, b : 1..MaxBbox]

\* the map is constructed with zoom 12 (page.tsx:495)
InitialView == [z |-> 12000, b |-> 1]

NoId == 0

VARIABLES
    \* ---- map page, parcel loading (src/src/app/page.tsx) ----
    loaded,         \* the map 'load' event has fired (its sources exist)
    view,           \* the map's current viewport: zoom and bbox
    parcels,        \* the "parcels" GeoJSON source: exists, data (0 = empty
                    \* FeatureCollection, k > 0 = the response of load k)
    notice,         \* #zoom-message is displayed
    timers,         \* pending setTimeout callbacks: [id, left]
    debounceRef,    \* debounceTimeoutRef.current (a timer id, 0 = undefined)
    abortRef,       \* abortControllerRef.current (a controller id, 0 = undefined)
    inflight,       \* /api/parcels requests awaiting their response
    interactions,   \* number of times setupInteractions has run
    hoveredId,      \* module-level hoveredId (0 = null)
    hoverFilter,    \* parcel id the 'parcels-hover' filter matches (0 = none)
    selectedId,     \* module-level selectedId (0 = null)
    selectedFilter, \* parcel id the 'parcels-selected' filter matches (0 = none)
    \* ---- observation of the run (not program state) ----
    moves,          \* number of 'moveend' events so far
    loads,          \* number of loadParcels invocations so far
    lastLoad,       \* the latest loadParcels invocation
    sinceMove,      \* time since the latest 'moveend', saturating
    burstLoads,     \* debounced loadParcels invocations since the latest 'moveend'
    burstSize       \* 'moveend' events of the current burst (each less than
                    \* DEBOUNCE_MS after the previous one)

viewportVars == <<loaded, view, parcels, notice, timers, debounceRef, abortRef,
                  inflight, interactions, hoveredId, hoverFilter, selectedId,
                  selectedFilter, moves, loads, lastLoad, sinceMove, burstLoads,
                  burstSize>>

VARIABLES
    \* ---- one request to an HTTP endpoint (src/src/app/api) ----
    ep,         \* the route handling the request ("none": no request yet)
    inp,        \* the request's parameters and what the database holds for it
    pc,         \* where the handler is
    todo,       \* the statements the handler's try block still has to issue
    log,        \* what happened on the pool and the connection, in order
    held,       \* the handler holds a connection of the pool
    err,        \* the error code the catch block was entered with
    resp        \* the response: [status, body, thrown]

apiVars == <<ep, inp, pc, todo, log, held, err, resp>>

VARIABLES
    \* ---- map page, selection (src/src/app/page.tsx) ----
    selectedParcelId,   \* React state selectedParcelId (0 = null)
    selectedAddress,    \* React state selectedAddress (NoAddress = null)
    addrSrc,            \* data of the "addresses" source: 0 = empty, p = the
                        \* addresses of parcel p
    bufferSrc,          \* the "buffer" source holds a polygon
    schoolsSrc,         \* data of the "schools" and "school-lines" sources: the
                        \* address whose schools they show (NoAddress = empty)
    librariesSrc,       \* the same for "libraries" and "library-lines"
    mapAddrReqs,        \* fetches of loadAddressesForParcel awaiting a response
    \* ---- AddressTable (src/src/components/AddressTable.tsx) ----
    renderedParcelId,   \* prop parcelId of the latest render
    renderedAddress,    \* prop selectedAddress of the latest render
    tblAddresses,       \* state addresses: 0 = [], p = the addresses of parcel p
    tblError,           \* state error is set
    tblReqs,            \* fetches of fetchAddresses awaiting a response
    schools,            \* state schools: the address they belong to
    libraries,          \* state libraries: the address they belong to
    schoolsError,       \* state schoolsError is set
    librariesError,     \* state librariesError is set
    xrefReqs,           \* fetches of fetchSchoolsAndLibraries awaiting a response
    \* ---- observation of the run (not program state) ----
    clicks,             \* the clicks on parcels so far: [p, hits]
    rowClicks,          \* number of clicks on a row of the table so far
    fetches,            \* number of fetches the selection part has started
    lastXref,           \* the latest answer to fetchSchoolsAndLibraries
    closes,             \* number of close signals so far
    closed              \* a close signal was received and the user has made no
                        \* selection since

selectVars == <<selectedParcelId, selectedAddress, addrSrc, bufferSrc,
                schoolsSrc, librariesSrc, mapAddrReqs, renderedParcelId,
                renderedAddress, tblAddresses, tblError, tblReqs, schools,
                libraries, schoolsError, librariesError, xrefReqs, clicks,
                rowClicks, fetches, lastXref, closes, closed>>

\* parcels/route.ts toleranceForZoom: the zoom it is given and, once it has
\* returned, the tolerance in a sequence of length one
VARIABLES tolZ, tol

tolVars == <<tolZ, tol>>

VARIABLES
    \* ---- the life of the Page component (src/src/app/page.tsx:469-938) ----
    mounted,    \* the effect has run and its cleanup has not
    \* ---- observation of the run (not program state) ----
    mounts,     \* number of times the page was unmounted and mounted again
    selects     \* number of 'select-parcel' events so far

pageVars == <<mounted, mounts, selects>>

VARIABLES
    \* ---- SearchControl (src/src/components/SearchControl.tsx) ----
    query,          \* state query: the text of the input (0 = blank)
    searchTimer,    \* the pending debounce timer: the text it was set with, in
                    \* a sequence of length one (<<>> = no timer)
    searchReqs,     \* /api/search requests awaiting their response: [id, q]
    results,        \* state results: the text whose results are shown
                    \* (0 = no results)
    searchError,    \* state error is set
    \* ---- observation of the run (not program state) ----
    latestSearch,   \* the text of the latest searchAddresses call, in a
                    \* sequence of length one (<<>> = none yet)
    inputs,         \* number of changes of the input so far
    searches        \* number of /api/search requests started so far

searchVars == <<query, searchTimer, searchReqs, results, searchError,
                latestSearch, inputs, searches>>

VARIABLES
    \* ---- NearbyPage (src/src/app/nearby/page.tsx) ----
    nbSelectedId,       \* module variable selectedId of nearby/page.tsx
    nbSelectedParcelId, \* state selectedParcelId
    viewMode,           \* state viewMode, and viewModeRef.current, which an
                        \* effect sets to it after every render
    nearbyData,         \* state nearbyData: the parcel whose surroundings are
                        \* listed (0 = the empty list)
    bufferShown,        \* the "buffer" source holds the 2 km circle
    nbAddresses,        \* the parcel whose addresses the "addresses" source
                        \* holds (0 = none)
    addressLoads,       \* fetches of loadAddressesForParcel awaiting their
                        \* response: [id, parcel]
    nearbyLoads,        \* fetches of /api/nearby awaiting their response:
                        \* [id, parcel]
    \* ---- observation of the run (not program state) ----
    nbClicks,           \* number of clicks on a parcel so far
    nbClears,           \* number of calls of clearParcelSelection so far
    nbFetches           \* number of fetches started so far

nearbyVars == <<nbSelectedId, nbSelectedParcelId, viewMode, nearbyData,
                bufferShown, nbAddresses, addressLoads, nearbyLoads, nbClicks,
                nbClears, nbFetches>>

VARIABLES
    \* ---- EventBus (src/lib/events.ts) ----
    busHandlers,    \* the Map handlers: for each event that has a Set, its
                    \* handlers in insertion order
    \* ---- observation of the run (not program state) ----
    busRegs,        \* for each event and handler: at, the number of the call
                    \* of on that registered it (0 = not registered), and
                    \* ons, the calls of on since it was last not registered
    busClock,       \* number of calls of on so far
    busEmitted,     \* the latest emit: its event, its payload and busRegs of
                    \* the event when it was called, in a sequence of length
                    \* one (<<>> = none yet)
    busCalls,       \* the calls of handlers the latest emit made, in order
    busOps          \* number of calls of on, off and emit so far

busVars == <<busHandlers, busRegs, busClock, busEmitted, busCalls, busOps>>

\* the components beside the map page
widgetVars == <<searchVars, nearbyVars, busVars>>

vars == <<viewportVars, apiVars, selectVars, tolVars, pageVars, widgetVars>>

\* what the actions of one part of the model leave alone
notViewportVars == <<apiVars, selectVars, tolVars, pageVars, widgetVars>>
notApiVars == <<viewportVars, selectVars, tolVars, pageVars, widgetVars>>
\* the selection part shares selectedId and selectedFilter with parcel loading
notSelectVars == <<loaded, view, parcels, notice, timers, debounceRef, abortRef,
                   inflight, interactions, hoveredId, hoverFilter, moves, loads,
                   lastLoad, sinceMove, burstLoads, burstSize, apiVars, tolVars,
                   pageVars, widgetVars>>

(* ----------------------------------------------------------------------- *)
(* page.tsx: parcel loading                                                *)
(* ----------------------------------------------------------------------- *)

EmptyFC == 0

NoLoad == [id |-> 0, kind |-> "none", view |-> InitialView, gap |-> 0,
           arrival |-> "none"]

\* saturation point of sinceMove: one step past the debounce window
SinceCap == DEBOUNCE_MS + TickStep

\* a zoom test that is wrong by one level
BelowMinZOffByOne(z) == z < (MIN_Z - 1) * 1000

\* page.tsx:363  if (z < MIN_Z)
BelowMinZ(z) == z < MIN_Z * 1000

\* loadParcels(map, _abortController): the synchronous part, up to the fetch.
\* `debounced` tells the observation which caller invoked it.
LoadParcels(ctrl, debounced) ==
    /\ loads' = loads + 1
    /\ burstLoads' = IF debounced THEN burstLoads + 1 ELSE burstLoads
    /\ IF BelowMinZ(view.z)
         THEN /\ parcels' = IF parcels.exists
                              THEN [parcels EXCEPT !.data = EmptyFC]
                              ELSE parcels
              /\ notice' = TRUE
              /\ inflight' = inflight
              /\ lastLoad' = [id |-> loads + 1, kind |-> "cleared", view |-> view,
                              gap |-> sinceMove, arrival |-> "none"]
         ELSE /\ notice' = FALSE
              /\ inflight' = inflight \cup
                     {[id |-> loads + 1, ctrl |-> ctrl, src |-> parcels.exists,
                       view |-> view]}
              /\ parcels' = parcels
              /\ lastLoad' = [id |-> loads + 1, kind |-> "sent", view |-> view,
                              gap |-> sinceMove, arrival |-> "none"]

\* map.on("load", ...): the sources of the page are added, then loadParcels(map)
\* is called without an abort controller.
MapLoad ==
    /\ mounted
    /\ ~loaded
    /\ loaded' = TRUE
    /\ LoadParcels(NoId, FALSE)
    /\ UNCHANGED <<view, timers, debounceRef, abortRef, interactions, hoveredId,
                   hoverFilter, selectedId, selectedFilter, moves, sinceMove,
                   burstSize>>
    /\ UNCHANGED notViewportVars

\* the delay debouncedLoadParcels passes to setTimeout
DebounceDelay == DEBOUNCE_MS

\* a debounce that forgets clearTimeout: every earlier timer still fires
TimersNotCleared == timers

\* the timers left after clearTimeout(debounceTimeoutRef.current)
ClearedTimers == {t \in timers : t.id # debounceRef}

\* the requests left after abortControllerRef.current.abort(): the fetch of an
\* aborted request rejects with an AbortError, which loadParcels ignores
AfterAbort == {r \in inflight : r.ctrl = NoId \/ r.ctrl # abortRef}

\* The map ends a move at viewport v and fires 'moveend': debouncedLoadParcels.
Moveend(v) ==
    /\ mounted
    /\ moves < MaxMoves
    /\ view' = v
    /\ moves' = moves + 1
    /\ inflight' = AfterAbort
    /\ abortRef' = moves + 1
    /\ timers' = ClearedTimers \cup {[id |-> moves + 1, left |-> DebounceDelay]}
    /\ debounceRef' = moves + 1
    /\ sinceMove' = 0
    /\ burstLoads' = 0
    /\ burstSize' = IF moves > 0 /\ sinceMove < DEBOUNCE_MS THEN burstSize + 1 ELSE 1
    /\ UNCHANGED <<loaded, parcels, notice, interactions, hoveredId, hoverFilter,
                   selectedId, selectedFilter, loads, lastLoad>>
    /\ UNCHANGED notViewportVars

\* The viewport changes during a gesture that has not ended yet: 'move' events,
\* for which the page registers no handler.
MapMove(v) ==
    /\ moves > 0
    /\ v # view
    /\ view' = v
    /\ UNCHANGED <<loaded, parcels, notice, timers, debounceRef, abortRef,
                   inflight, interactions, hoveredId, hoverFilter, selectedId,
                   selectedFilter, moves, loads, lastLoad, sinceMove, burstLoads,
                   burstSize>>
    /\ UNCHANGED notViewportVars

\* Time passes; a timer that has expired runs before time passes further.
Tick ==
    /\ \A t \in timers : t.left > 0
    /\ sinceMove < SinceCap \/ timers # {}
    /\ timers' = {[t EXCEPT !.left = t.left - TickStep] : t \in timers}
    /\ sinceMove' = IF sinceMove < SinceCap THEN sinceMove + TickStep ELSE sinceMove
    /\ UNCHANGED <<loaded, view, parcels, notice, debounceRef, abortRef, inflight,
                   interactions, hoveredId, hoverFilter, selectedId, selectedFilter,
                   moves, loads, lastLoad, burstLoads, burstSize>>
    /\ UNCHANGED notViewportVars

\* The setTimeout callback of debouncedLoadParcels:
\* loadParcels(map, abortControllerRef.current).
TimerFire ==
    \E t \in timers :
        /\ mounted
        /\ t.left <= 0
        /\ timers' = timers \ {t}
        /\ LoadParcels(abortRef, TRUE)
        /\ UNCHANGED <<loaded, view, debounceRef, abortRef, interactions,
                       hoveredId, hoverFilter, selectedId, selectedFilter, moves,
                       sinceMove, burstSize>>
        /\ UNCHANGED notViewportVars

\* what the observation records when the response of request r arrives
Arrived(r, outcome) ==
    IF lastLoad.id = r.id THEN [lastLoad EXCEPT !.arrival = outcome] ELSE lastLoad

\* a reload after which the 'parcels-selected' filter is the one the layer
\* was created with
ReappliedFilterInitial == NoId

\* page.tsx:393-396: the 'parcels-selected' filter after a reload
ReappliedFilter == IF selectedId # NoId THEN selectedId ELSE selectedFilter

\* The response of request r arrives with res.ok: the continuation of
\* loadParcels after `await fetch` and `await res.json()`.
ParcelsOk(r) ==
    /\ mounted
    /\ r \in inflight
    /\ inflight' = inflight \ {r}
    /\ lastLoad' = Arrived(r, "ok")
    /\ IF r.src
         THEN \* src.setData(fc); setHover(map, null); re-apply the selected filter
              /\ parcels' = [parcels EXCEPT !.data = r.id]
              /\ hoveredId' = NoId
              /\ hoverFilter' = IF hoveredId # NoId THEN NoId ELSE hoverFilter
              /\ selectedFilter' = ReappliedFilter
              /\ interactions' = interactions
         ELSE IF parcels.exists
                THEN \* map.addSource("parcels") throws: the source already
                     \* exists; the catch finds src undefined and does nothing
                     UNCHANGED <<parcels, hoveredId, hoverFilter, selectedFilter,
                                 interactions>>
                ELSE \* first time: add the source, the layers, the interactions
                     /\ parcels' = [exists |-> TRUE, data |-> r.id]
                     /\ hoverFilter' = NoId
                     /\ selectedFilter' = NoId
                     /\ interactions' = interactions + 1
                     /\ hoveredId' = hoveredId
    /\ UNCHANGED <<loaded, view, notice, timers, debounceRef, abortRef, selectedId,
                   moves, loads, sinceMove, burstLoads, burstSize>>
    /\ UNCHANGED notViewportVars

\* The response of request r arrives with a non-OK status, or the fetch fails
\* with an error that is not an AbortError.
ParcelsFail(r) ==
    /\ mounted
    /\ r \in inflight
    /\ inflight' = inflight \ {r}
    /\ lastLoad' = Arrived(r, "fail")
    /\ parcels' = IF r.src THEN [parcels EXCEPT !.data = EmptyFC] ELSE parcels
    /\ UNCHANGED <<loaded, view, notice, timers, debounceRef, abortRef,
                   interactions, hoveredId, hoverFilter, selectedId, selectedFilter,
                   moves, loads, sinceMove, burstLoads, burstSize>>
    /\ UNCHANGED notViewportVars

ViewportNext ==
    \/ MapLoad
    \/ \E v \in Views : Moveend(v)
    \/ \E v \in Views : MapMove(v)
    \/ Tick
    \/ TimerFire
    \/ \E r \in inflight : ParcelsOk(r)
    \/ \E r \in inflight : ParcelsFail(r)


(* ======================================================================= *)
(* The HTTP query endpoints (src/src/app/api/**/route.ts, part_003)         *)
(*                                                                         *)
(* One request is followed from its arrival to its response. A request     *)
(* parameter is a token [t, v]: t says what the text of the parameter is   *)
(* ("absent": not given, "empty": "", "lit": the decimal numeral of v,     *)
(* "prefix": the numeral of v followed by letters, "junk": letters, "inf": *)
(* "Infinity"). A JavaScript number is [k, v] with k one of "num", "nan",  *)
(* "inf".                                                                  *)
(* ======================================================================= *)

Tok(t, v) == [t |-> t, v |-> v]
Absent == Tok("absent", 0)
Lit(v) == Tok("lit", v)

Num(v) == [k |-> "num", v |-> v]
NaN == [k |-> "nan", v |-> 0]
Infinity == [k |-> "inf", v |-> 0]

\* Number(text), for a text that is present
ToNumber(tok) ==
    CASE tok.t = "lit" -> Num(tok.v)
      [] tok.t = "empty" -> Num(0)
      [] tok.t = "inf" -> Infinity
      [] OTHER -> NaN

\* parseFloat(text), for a text that is present
ParseFloat(tok) ==
    CASE tok.t = "lit" -> Num(tok.v)
      [] tok.t = "prefix" -> Num(tok.v)
      [] tok.t = "inf" -> Infinity
      [] OTHER -> NaN

\* Number.isFinite(n)
IsFinite(n) == n.k = "num"

\* !n for a JavaScript number: 0 and NaN are falsy
Falsy(n) == n.k = "nan" \/ (n.k = "num" /\ n.v = 0)

\* !s for the text of a parameter: null and "" are falsy
NoText(tok) == tok.t \in {"absent", "empty"}

Endpoints == {"parcels", "addresses", "parcelAddresses", "addressParcel",
              "search", "nearestSchools", "nearest5", "libSchools", "snap",
              "nearby", "db"}

NoResp == [status |-> 0, body |-> "", thrown |-> FALSE]
Resp(status, body) == [status |-> status, body |-> body, thrown |-> FALSE]
\* the handler threw: the framework answers 500
Thrown == [status |-> 500, body |-> "", thrown |-> TRUE]

Stmt(op, q, ms) == [op |-> op, q |-> q, ms |-> ms]
Begin == Stmt("BEGIN", "", 0)
SetTimeout(ms) == Stmt("SET", "", ms)
Query(q) == Stmt("QUERY", q, 0)
Commit == Stmt("COMMIT", "", 0)
Rollback == Stmt("ROLLBACK", "", 0)
Entry(stmt, res) == [op |-> stmt.op, q |-> stmt.q, ms |-> stmt.ms, res |-> res]

(* ---- parameter parsing ------------------------------------------------ *)

\* parcels/route.ts parseBbox: null (here <<>>) or the four numbers
ParseBbox(bbox) ==
    IF Len(bbox) = 0 \/ (Len(bbox) = 1 /\ NoText(bbox[1]))
      THEN <<>>
      ELSE LET a == [i \in 1..Len(bbox) |-> ToNumber(bbox[i])]
           IN  IF Len(a) = 4 /\ \A i \in 1..Len(a) : IsFinite(a[i])
                 THEN a ELSE <<>>

\* db/route.ts parseBbox (addresses route): the same function
AddressesParseBbox(bbox) ==
    IF Len(bbox) = 0 \/ (Len(bbox) = 1 /\ NoText(bbox[1]))
      THEN <<>>
      ELSE LET a == [i \in 1..Len(bbox) |-> ToNumber(bbox[i])]
           IN  IF Len(a) = 4 /\ \A i \in 1..Len(a) : IsFinite(a[i])
                 THEN a ELSE <<>>

Clamp(lo, hi, x) == IF x < lo THEN lo ELSE IF x > hi THEN hi ELSE x

\* parseZoom: Number(get("z") ?? "12"), clamped to [0, 22], 12 when not finite
ParseZoom(z) ==
    LET n == IF z.t = "absent" THEN Num(12000) ELSE ToNumber(z)
    IN  IF IsFinite(n) THEN Clamp(0, 22000, n.v) ELSE 12000

\* db/route.ts parseParcelId: null (here 0) or a positive number
ParseParcelId(pid) ==
    IF NoText(pid) THEN 0
    ELSE LET n == ToNumber(pid)
         IN  IF IsFinite(n) /\ n.v > 0 THEN n.v ELSE 0

\* parseFloat(searchParams.get(name) || "0")
CoordOf(tok) == IF NoText(tok) THEN Num(0) ELSE ParseFloat(tok)

\* search/route.ts parseQuery: null (here FALSE) when q is missing or blank
ParseQuery(q) == q = "text"

(* ---- validation: the response sent before any connection is acquired --- *)

\* a zoom test that forgets the parcels route's lower limit
ParcelsZoomTooLowNever(z) == FALSE

\* parcels/route.ts:45  if (z < 10)
ParcelsZoomTooLow(z) == z < 10 * 1000

\* parcels/route.ts:38-50
ParcelsValidate(i) ==
    IF ParseBbox(i.bbox) = <<>>
      THEN Resp(400, "bbox=minX,minY,maxX,maxY required")
      ELSE IF ParcelsZoomTooLow(ParseZoom(i.z))
             THEN Resp(400, "Zoom in to load parcels")
             ELSE NoResp

\* db/route.ts:60-62 (addresses route)
AddressesValidate(i) ==
    IF ParseParcelId(i.pid) = 0 /\ AddressesParseBbox(i.bbox) = <<>>
      THEN Resp(400, "Either parcel_id or bbox is required")
      ELSE NoResp

\* parcel/[parcelId]/addresses/route.ts:15-19
ParcelAddressesValidate(i) ==
    LET n == IF i.pid.t = "absent" THEN NaN ELSE ToNumber(i.pid)
    IN  IF ~IsFinite(n) \/ n.v <= 0 THEN Resp(400, "Invalid parcel ID")
                                    ELSE NoResp

\* part_003 (address/[addressId]/parcel/route.ts):15-19
AddressParcelValidate(i) ==
    LET n == IF i.pid.t = "absent" THEN NaN ELSE ToNumber(i.pid)
    IN  IF ~IsFinite(n) \/ n.v <= 0 THEN Resp(400, "Invalid address ID")
                                    ELSE NoResp

\* search/route.ts:20-25
SearchValidate(i) ==
    IF ~ParseQuery(i.q) THEN Resp(400, "q (query) parameter is required")
                        ELSE NoResp

\* if (!lat || !lng): nearest-5-schools/route.ts:12 and :48,
\* libraries-and-schools-within-2km/route.ts:13, snap-to-road/route.ts:13, :88
LatLngValidate(i) ==
    IF Falsy(CoordOf(i.lat)) \/ Falsy(CoordOf(i.lng))
      THEN Resp(400, "lat and lng are required")
      ELSE NoResp

Validate(e, i) ==
    CASE e = "parcels" -> ParcelsValidate(i)
      [] e = "addresses" -> AddressesValidate(i)
      [] e = "parcelAddresses" -> ParcelAddressesValidate(i)
      [] e = "addressParcel" -> AddressParcelValidate(i)
      [] e = "search" -> SearchValidate(i)
      [] e \in {"nearestSchools", "nearest5", "libSchools", "snap", "nearby"}
            -> LatLngValidate(i)
      [] OTHER -> NoResp

(* ---- the statements of each handler's try block ----------------------- *)

\* parcels/route.ts:60-97
ParcelsPlan(i) == <<Begin, SetTimeout(2500), Query("parcels"), Commit>>

\* the zoom from which the addresses route queries in bbox mode
\* db/route.ts:145  else if (bbox && z >= 12)
AddressesBboxZoomOk(z) == z >= 12 * 1000

\* db/route.ts:73-179 (addresses route)
AddressesPlan(i) ==
    IF ParseParcelId(i.pid) # 0
      THEN <<Begin, SetTimeout(2500), Query("tableCheck"),
             Query(IF i.table THEN "precomputed" ELSE "spatialJoin"), Commit>>
      ELSE IF AddressesParseBbox(i.bbox) # <<>>
                /\ AddressesBboxZoomOk(ParseZoom(i.z))
             THEN <<Begin, SetTimeout(2500), Query("bbox"), Commit>>
             ELSE <<Begin, SetTimeout(2500), Commit>>

\* parcel/[parcelId]/addresses/route.ts:27-123, up to the enhanced query
ParcelAddressesPlan(i) ==
    <<Begin, SetTimeout(2500), Query("tableCheck"), Query("enhanced"), Commit>>

\* the inner catch running the basic query in the transaction of the failed
\* enhanced query
ParcelAddressesFallbackSameTx == <<Query("basic"), Commit>>

\* parcel/[parcelId]/addresses/route.ts:62-80 and :100-120: the inner catch
ParcelAddressesFallback ==
    <<Rollback, Begin, SetTimeout(2500), Query("basic"), Commit>>

\* part_003:27-61
AddressParcelPlan(i) ==
    <<Begin, SetTimeout(2500), Query("tableCheck"),
      Query(IF i.table THEN "precomputed" ELSE "spatialJoin"), Commit>>

\* search/route.ts:29-60
SearchPlan(i) == <<Begin, SetTimeout(3000), Query("search"), Commit>>

\* nearest-5-schools/route.ts:30 (first handler) and :68 (second handler)
NearestPlan(i) == <<Query("nearestSchools")>>

\* libraries-and-schools-within-2km/route.ts:61-62
LibSchoolsPlan(i) == <<Query("libraries"), Query("schools")>>

\* snap-to-road/route.ts:56
SnapPlan(i) == <<Query("snap")>>

\* snap-to-road/route.ts:204 (nearby route)
NearbyPlan(i) == <<Query("nearby")>>

\* db/route.ts:11
DbPlan(i) == <<Query("select1")>>

Plan(e, i) ==
    CASE e = "parcels" -> ParcelsPlan(i)
      [] e = "addresses" -> AddressesPlan(i)
      [] e = "parcelAddresses" -> ParcelAddressesPlan(i)
      [] e = "addressParcel" -> AddressParcelPlan(i)
      [] e = "search" -> SearchPlan(i)
      [] e \in {"nearestSchools", "nearest5"} -> NearestPlan(i)
      [] e = "libSchools" -> LibSchoolsPlan(i)
      [] e = "snap" -> SnapPlan(i)
      [] e = "nearby" -> NearbyPlan(i)
      [] OTHER -> DbPlan(i)

(* ---- the shape of each handler ---------------------------------------- *)

\* pool.connect() is awaited inside a try block whose catch answers 500
ConnectInTry(e) == e \in {"libSchools", "snap", "nearby"}

\* what follows a statement that fails in the try block: a catch that issues
\* ROLLBACK, a catch that only answers, or nothing (the handler throws)
CatchKind(e) ==
    CASE e \in {"parcels", "addresses", "parcelAddresses", "addressParcel",
                "search"} -> "rollback"
      [] e = "nearestSchools" -> "none"
      [] OTHER -> "plain"

\* the handler has a finally block that calls client.release()
HasFinallyRelease(e) == e # "nearestSchools"

\* the answer of a catch block that only answers
PlainCatchResp(e) ==
    CASE e = "nearest5" -> Resp(500, "Database query failed")
      [] e = "db" -> Resp(500, "Database connection failed")
      [] OTHER -> Resp(500, "Internal server error")

\* the answer of a catch block after its ROLLBACK: 504 for SQLSTATE 57014
RollbackCatchResp(e, code) ==
    IF code = "57014"
      THEN Resp(504, CASE e = "parcels" -> "Query timeout, zoom in or try again"
                       [] e = "search" -> "Search timeout, try a more specific query"
                       [] OTHER -> "Query timeout")
      ELSE Resp(500, IF e = "search" THEN "Search failed"
                                     ELSE "Database query failed")

\* the answer when every statement of the try block has succeeded
SuccessResp(e, i, done) ==
    CASE e \in {"parcels", "parcelAddresses"}
            -> Resp(200, IF i.rows = 0 THEN "emptyFC" ELSE "FC")
      [] e = "addresses"
            -> Resp(200, IF \A k \in 1..Len(done) : done[k].op # "QUERY"
                            \/ i.rows = 0 THEN "emptyFC" ELSE "FC")
      [] e = "addressParcel"
            -> IF i.rows = 0 THEN Resp(404, "No parcel found for this address")
                             ELSE Resp(200, "parcelId")
      [] e = "db" -> Resp(200, "ok")
      [] OTHER -> Resp(200, "rows")

(* ---- the requests the model sends ------------------------------------- *)

GoodBbox == <<Lit(-794), Lit(436), Lit(-793), Lit(437)>>

OddToks == {Tok("empty", 0), Tok("junk", 0), Tok("inf", 0), Tok("prefix", 1)}

\* four numerals with the corners exchanged: minX > maxX and minY > maxY
InvertedBbox == <<Lit(-793), Lit(437), Lit(-794), Lit(436)>>

\* bbox parameters: missing, "", a good one, an inverted one, too short, too
\* long, and a good one with one component replaced by a text that is no
\* numeral
BboxInputs ==
    {<<>>, <<Tok("empty", 0)>>, GoodBbox, InvertedBbox, SubSeq(GoodBbox, 1, 3),
     GoodBbox \o <<Lit(1)>>}
    \cup {[GoodBbox EXCEPT ![p] = t] : p \in 1..4, t \in OddToks}

ZoomInputs ==
    {Absent, Tok("junk", 0), Tok("empty", 0), Tok("inf", 0)}
    \cup {Lit(v) : v \in {-1000, 8000, 9999, 10000, 11999, 12000, 23000}}

CoordInputs ==
    {Absent, Tok("empty", 0), Lit(0), Lit(43), Lit(-79), Tok("junk", 0),
     Tok("inf", 0), Tok("prefix", 43)}

IdInputs == {Lit(5), Lit(0), Lit(-3), Tok("junk", 0), Tok("inf", 0)}

DefaultInput ==
    [bbox |-> <<>>, z |-> Absent, pid |-> Absent, lat |-> Absent, lng |-> Absent,
     q |-> "absent", table |-> TRUE, rows |-> 1]

ApiInputs(e) ==
    CASE e = "parcels"
            -> {[DefaultInput EXCEPT !.bbox = b, !.z = z, !.rows = n] :
                    b \in BboxInputs, z \in ZoomInputs, n \in {0, 1}}
      [] e = "addresses"
            -> {[DefaultInput EXCEPT !.bbox = b, !.z = z, !.pid = p, !.table = t] :
                    b \in BboxInputs, z \in ZoomInputs,
                    p \in {Absent, Tok("empty", 0), Lit(5), Lit(0)}, t \in BOOLEAN}
      [] e \in {"parcelAddresses", "addressParcel"}
            -> {[DefaultInput EXCEPT !.pid = p, !.table = t, !.rows = n] :
                    p \in IdInputs, t \in BOOLEAN, n \in {0, 1}}
      [] e = "search"
            -> {[DefaultInput EXCEPT !.q = q] : q \in {"absent", "blank", "text"}}
      [] e \in {"nearestSchools", "nearest5", "libSchools", "snap", "nearby"}
            -> {[DefaultInput EXCEPT !.lat = a, !.lng = b] :
                    a \in CoordInputs, b \in CoordInputs}
      [] OTHER -> {DefaultInput}

\* how a statement can end: a query can run into the statement timeout
Outcomes(stmt) ==
    IF stmt.op = "QUERY" THEN {"ok", "57014", "other"} ELSE {"ok", "other"}

(* ---- the handler, step by step ---------------------------------------- *)

\* The request arrives: the parameters are parsed and validated.
ApiReceive(e, i) ==
    /\ pc = "idle"
    /\ ep' = e
    /\ inp' = i
    /\ resp' = Validate(e, i)
    /\ pc' = IF Validate(e, i) # NoResp THEN "done" ELSE "connect"
    /\ UNCHANGED <<todo, log, held, err>>
    /\ UNCHANGED notApiVars

\* await pool.connect()
ApiConnect(res) ==
    /\ pc = "connect"
    /\ log' = Append(log, Entry(Stmt("connect", "", 0), res))
    /\ IF res = "ok"
         THEN /\ held' = TRUE
              /\ todo' = Plan(ep, inp)
              /\ pc' = "body"
              /\ resp' = resp
         ELSE /\ resp' = IF ConnectInTry(ep) THEN PlainCatchResp(ep) ELSE Thrown
              /\ pc' = "done"
              /\ UNCHANGED <<held, todo>>
    /\ UNCHANGED <<ep, inp, err>>
    /\ UNCHANGED notApiVars

\* where the handler goes when it leaves its try block
AfterTry(e) == IF HasFinallyRelease(e) THEN "finally" ELSE "done"

\* await client.query(...): the next statement of the try block
ApiStatement(res) ==
    /\ pc = "body"
    /\ todo # <<>>
    /\ res \in Outcomes(Head(todo))
    /\ log' = Append(log, Entry(Head(todo), res))
    /\ IF res = "ok"
         THEN /\ todo' = Tail(todo)
              /\ err' = err
              /\ IF Tail(todo) = <<>>
                   THEN /\ resp' = SuccessResp(ep, inp, Append(log, Entry(Head(todo), res)))
                        /\ pc' = AfterTry(ep)
                   ELSE UNCHANGED <<resp, pc>>
         ELSE IF ep = "parcelAddresses" /\ Head(todo) = Query("enhanced")
                THEN \* the inner catch: the basic query in a fresh transaction
                     /\ todo' = ParcelAddressesFallback
                     /\ UNCHANGED <<resp, pc, err>>
                ELSE /\ todo' = <<>>
                     /\ err' = IF CatchKind(ep) = "rollback" THEN res ELSE err
                     /\ pc' = CASE CatchKind(ep) = "rollback" -> "catch"
                                [] CatchKind(ep) = "plain" -> "finally"
                                [] OTHER -> "done"
                     /\ resp' = CASE CatchKind(ep) = "rollback" -> resp
                                  [] CatchKind(ep) = "plain" -> PlainCatchResp(ep)
                                  [] OTHER -> Thrown
    /\ UNCHANGED <<ep, inp, held>>
    /\ UNCHANGED notApiVars

\* catch (error) { await client.query("ROLLBACK"); ... }
ApiCatch(res) ==
    /\ pc = "catch"
    /\ log' = Append(log, Entry(Rollback, res))
    /\ resp' = IF res = "ok" THEN RollbackCatchResp(ep, err) ELSE Thrown
    /\ pc' = "finally"
    /\ UNCHANGED <<ep, inp, todo, held, err>>
    /\ UNCHANGED notApiVars

\* finally { client.release(); }
ApiFinally ==
    /\ pc = "finally"
    /\ log' = Append(log, Entry(Stmt("release", "", 0), "ok"))
    /\ held' = FALSE
    /\ pc' = "done"
    /\ UNCHANGED <<ep, inp, todo, err, resp>>
    /\ UNCHANGED notApiVars

ApiNext ==
    \/ \E e \in Endpoints : \E i \in ApiInputs(e) : ApiReceive(e, i)
    \/ \E res \in {"ok", "other"} : ApiConnect(res)
    \/ \E res \in {"ok", "57014", "other"} : ApiStatement(res)
    \/ \E res \in {"ok", "other"} : ApiCatch(res)
    \/ ApiFinally

(* ----------------------------------------------------------------------- *)
(* page.tsx, AddressTable.tsx: selection and cross-reference               *)
(* ----------------------------------------------------------------------- *)

\* the parcels the map shows
Parcels == {1, 2}

\* the rows of a parcel's address table
Rows == {1}

\* an address row: its parcel, its index, and the click that produced the
\* object (every render of the table builds new row objects)
NoAddress == [p |-> NoId, n |-> NoId, c |-> NoId]

\* the part of the page a click handler reads and writes
PageState ==
    [selectedId |-> selectedId, selectedFilter |-> selectedFilter,
     addrSrc |-> addrSrc, bufferSrc |-> bufferSrc,
     selectedParcelId |-> selectedParcelId, mapAddrReqs |-> mapAddrReqs,
     fetches |-> fetches]

\* a setSelected that leaves the 'parcels-selected' filter alone when the
\* selection is cleared
SetSelectedKeepsFilter(st, id) ==
    IF ~parcels.exists
      THEN st
      ELSE [st EXCEPT !.selectedId = id,
                      !.selectedFilter = IF id # NoId THEN id ELSE st.selectedFilter]

\* setSelected(map, id)
SetSelected(st, id) ==
    IF ~parcels.exists
      THEN st
      ELSE [st EXCEPT !.selectedId = id,
                      !.selectedFilter = IF id # NoId THEN id
                                         ELSE IF st.selectedId # NoId THEN NoId
                                         ELSE st.selectedFilter]

\* loadAddressesForParcel(map, parcelId), up to the fetch
LoadAddressesForParcel(st, id) ==
    IF ~loaded THEN st
    ELSE IF id = NoId THEN [st EXCEPT !.addrSrc = NoId]
    ELSE [st EXCEPT !.fetches = st.fetches + 1,
                    !.mapAddrReqs = st.mapAddrReqs \cup
                        {[id |-> st.fetches + 1, parcel |-> id]}]

\* updateBufferSource / clearBufferSource
SetBuffer(st, on) == IF ~loaded THEN st ELSE [st EXCEPT !.bufferSrc = on]

\* the 'click' handler of one parcel layer, on a feature of parcel p
ClickHandler(st, p) ==
    IF st.selectedId = p
      THEN SetBuffer([LoadAddressesForParcel(SetSelected(st, NoId), NoId)
                         EXCEPT !.selectedParcelId = NoId], FALSE)
      ELSE SetBuffer([LoadAddressesForParcel(SetSelected(st, p), p)
                         EXCEPT !.selectedParcelId = p], TRUE)

RECURSIVE ClickTimes(_, _, _)
ClickTimes(st, p, n) ==
    IF n = 0 THEN st ELSE ClickTimes(ClickHandler(st, p), p, n - 1)

\* The user clicks on parcel p. The click hits the fill layer, or the fill
\* and the line layer; each setupInteractions run has registered one handler
\* per layer, and they run one after the other.
ClickParcel(p, hits) ==
    /\ mounted
    /\ Len(clicks) < MaxClicks
    /\ interactions > 0
    /\ parcels.exists /\ parcels.data # EmptyFC
    /\ LET st == ClickTimes(PageState, p, hits * interactions) IN
        /\ selectedId' = st.selectedId
        /\ selectedFilter' = st.selectedFilter
        /\ addrSrc' = st.addrSrc
        /\ bufferSrc' = st.bufferSrc
        /\ selectedParcelId' = st.selectedParcelId
        /\ mapAddrReqs' = st.mapAddrReqs
        /\ fetches' = st.fetches
    /\ clicks' = Append(clicks, [p |-> p, hits |-> hits, data |-> parcels.data])
    /\ closed' = FALSE
    /\ UNCHANGED <<selectedAddress, schoolsSrc, librariesSrc, renderedParcelId,
                   renderedAddress, tblAddresses, tblError, tblReqs, schools,
                   libraries, schoolsError, librariesError, xrefReqs,
                   rowClicks, lastXref, closes>>
    /\ UNCHANGED notSelectVars

\* The response to a fetch of loadAddressesForParcel arrives.
MapAddressesResponse(r, ok) ==
    /\ r \in mapAddrReqs
    /\ mapAddrReqs' = mapAddrReqs \ {r}
    /\ addrSrc' = IF ok THEN r.parcel ELSE NoId
    /\ UNCHANGED <<selectedId, selectedFilter, selectedParcelId,
                   selectedAddress, bufferSrc, schoolsSrc, librariesSrc,
                   renderedParcelId, renderedAddress, tblAddresses, tblError,
                   tblReqs, schools, libraries, schoolsError, librariesError,
                   xrefReqs, clicks, rowClicks, fetches, lastXref, closes,
                   closed>>
    /\ UNCHANGED notSelectVars

\* Page renders after a change of its state and hands AddressTable its new
\* props; the effects whose dependencies changed run. The effect on
\* [parcelId] runs when parcelId changed; the effect on [selectedAddress,
\* onSchoolsChange, onLibrariesChange] runs after every render of Page,
\* because Page builds both callbacks anew each time it renders.
Render ==
    /\ <<selectedParcelId, selectedAddress>> # <<renderedParcelId, renderedAddress>>
    /\ renderedParcelId' = selectedParcelId
    /\ renderedAddress' = selectedAddress
    /\ LET parcelChanged == selectedParcelId # renderedParcelId
           fetchAddresses == parcelChanged /\ selectedParcelId # NoId
           fetchXref == selectedAddress # NoAddress
           n1 == IF fetchAddresses THEN fetches + 1 ELSE fetches
           n2 == IF fetchXref THEN n1 + 1 ELSE n1
       IN
        /\ tblAddresses' = IF parcelChanged /\ selectedParcelId = NoId
                             THEN NoId ELSE tblAddresses
        /\ tblError' = IF fetchAddresses THEN FALSE ELSE tblError
        /\ tblReqs' = IF fetchAddresses
                        THEN tblReqs \cup {[id |-> n1, parcel |-> selectedParcelId]}
                        ELSE tblReqs
        /\ schools' = IF fetchXref THEN schools ELSE NoAddress
        /\ libraries' = IF fetchXref THEN libraries ELSE NoAddress
        /\ schoolsError' = FALSE
        /\ librariesError' = FALSE
        /\ xrefReqs' = IF fetchXref
                         THEN xrefReqs \cup {[id |-> n2, addr |-> selectedAddress]}
                         ELSE xrefReqs
        /\ fetches' = n2
    /\ UNCHANGED <<selectedId, selectedFilter, selectedParcelId,
                   selectedAddress, addrSrc, bufferSrc, schoolsSrc,
                   librariesSrc, mapAddrReqs, clicks, rowClicks, lastXref,
                   closes, closed>>
    /\ UNCHANGED notSelectVars

\* The response to a fetch of fetchAddresses arrives.
TableAddressesResponse(r, ok) ==
    /\ r \in tblReqs
    /\ tblReqs' = tblReqs \ {r}
    /\ tblAddresses' = IF ok THEN r.parcel ELSE NoId
    /\ tblError' = IF ok THEN tblError ELSE TRUE
    /\ UNCHANGED <<selectedId, selectedFilter, selectedParcelId,
                   selectedAddress, addrSrc, bufferSrc, schoolsSrc,
                   librariesSrc, mapAddrReqs, renderedParcelId,
                   renderedAddress, schools, libraries, schoolsError,
                   librariesError, xrefReqs, clicks, rowClicks, fetches,
                   lastXref, closes, closed>>
    /\ UNCHANGED notSelectVars

\* The user clicks row n of the table: handleRowClick emits 'focus-address'
\* (map.easeTo, whose 'moveend' arrives when the animation ends) and
\* 'select-address' (handleSelectAddress).
RowClick(n) ==
    /\ rowClicks < MaxRowClicks
    /\ renderedParcelId # NoId
    /\ ~tblError
    /\ tblAddresses # NoId
    /\ rowClicks' = rowClicks + 1
    /\ selectedAddress' = [p |-> tblAddresses, n |-> n, c |-> rowClicks + 1]
    /\ closed' = FALSE
    /\ UNCHANGED <<selectedId, selectedFilter, selectedParcelId, addrSrc,
                   bufferSrc, schoolsSrc, librariesSrc, mapAddrReqs,
                   renderedParcelId, renderedAddress, tblAddresses, tblError,
                   tblReqs, schools, libraries, schoolsError, librariesError,
                   xrefReqs, clicks, fetches, lastXref, closes>>
    /\ UNCHANGED notSelectVars

\* libraries-and-schools-within-2km answers one request: the libraries query
\* runs first, the schools query only after it has succeeded, and a failure
\* of either reaches the outer catch
LibSchoolsAnswer(o) ==
    IF o.lib = "ok" /\ o.sch = "ok"
      THEN SuccessResp("libSchools", DefaultInput, <<>>)
      ELSE PlainCatchResp("libSchools")

\* how the two queries of one request can end
XrefOutcomes ==
    {[lib |-> "ok", sch |-> s] : s \in Outcomes(Query("schools"))}
        \cup {[lib |-> l, sch |-> "skipped"] :
                l \in Outcomes(Query("libraries")) \ {"ok"}}

\* The response to a fetch of fetchSchoolsAndLibraries arrives; the callbacks
\* are handleSchoolsChange and handleLibrariesChange (loadSchoolsonMap,
\* loadLibrariesOnMap).
XrefResponse(r, o) ==
    /\ r \in xrefReqs
    /\ xrefReqs' = xrefReqs \ {r}
    /\ lastXref' = [addr |-> r.addr, lib |-> o.lib, sch |-> o.sch]
    /\ IF LibSchoolsAnswer(o).status = 200
         THEN /\ schools' = r.addr
              /\ libraries' = r.addr
              /\ schoolsSrc' = IF loaded THEN r.addr ELSE schoolsSrc
              /\ librariesSrc' = IF loaded THEN r.addr ELSE librariesSrc
              /\ UNCHANGED <<schoolsError, librariesError>>
         ELSE /\ schoolsError' = TRUE
              /\ librariesError' = TRUE
              /\ schools' = NoAddress
              /\ libraries' = NoAddress
              /\ schoolsSrc' = IF loaded THEN NoAddress ELSE schoolsSrc
              /\ librariesSrc' = IF loaded THEN NoAddress ELSE librariesSrc
    /\ UNCHANGED <<selectedId, selectedFilter, selectedParcelId,
                   selectedAddress, addrSrc, bufferSrc, mapAddrReqs,
                   renderedParcelId, renderedAddress, tblAddresses, tblError,
                   tblReqs, clicks, rowClicks, fetches, closes, closed>>
    /\ UNCHANGED notSelectVars

\* A close signal arrives: the 'close-table' event of the table's close
\* button (handleCloseTable) or the close button of the parcel popup
\* (window.clearParcelSelection); both run clearParcelSelection.
Close ==
    /\ mounted
    /\ closes < MaxCloses
    /\ renderedParcelId # NoId \/ selectedId # NoId
    /\ LET st == SetBuffer(LoadAddressesForParcel(SetSelected(PageState, NoId),
                                                   NoId), FALSE) IN
        /\ selectedId' = st.selectedId
        /\ selectedFilter' = st.selectedFilter
        /\ addrSrc' = st.addrSrc
        /\ bufferSrc' = st.bufferSrc
    /\ selectedParcelId' = NoId
    /\ selectedAddress' = NoAddress
    /\ schoolsSrc' = IF loaded THEN NoAddress ELSE schoolsSrc
    /\ librariesSrc' = IF loaded THEN NoAddress ELSE librariesSrc
    /\ closes' = closes + 1
    /\ closed' = TRUE
    /\ UNCHANGED <<mapAddrReqs, renderedParcelId, renderedAddress, tblAddresses,
                   tblError, tblReqs, schools, libraries, schoolsError,
                   librariesError, xrefReqs, clicks, rowClicks, fetches,
                   lastXref>>
    /\ UNCHANGED notSelectVars

SelectNext ==
    \/ \E p \in Parcels, hits \in 1..2 : ClickParcel(p, hits)
    \/ \E r \in mapAddrReqs, ok \in BOOLEAN : MapAddressesResponse(r, ok)
    \/ Render
    \/ \E r \in tblReqs, ok \in BOOLEAN : TableAddressesResponse(r, ok)
    \/ \E n \in Rows : RowClick(n)
    \/ \E r \in xrefReqs, o \in XrefOutcomes : XrefResponse(r, o)
    \/ Close

(* ----------------------------------------------------------------------- *)
(* page.tsx: hover, 'select-parcel', unmount and mount                     *)
(* ----------------------------------------------------------------------- *)

\* setHover(map, id): the new hoveredId and 'parcels-hover' filter
SetHover(id) ==
    IF ~parcels.exists
      THEN [hoveredId |-> hoveredId, hoverFilter |-> hoverFilter]
      ELSE [hoveredId |-> id,
            hoverFilter |-> IF id # NoId THEN id
                            ELSE IF hoveredId # NoId THEN NoId
                            ELSE hoverFilter]

\* 'mousemove' on a feature of parcel p of a parcel layer
MouseMove(p) ==
    /\ mounted
    /\ interactions > 0
    /\ parcels.exists /\ parcels.data # EmptyFC
    /\ hoveredId' = SetHover(p).hoveredId
    /\ hoverFilter' = SetHover(p).hoverFilter
    /\ UNCHANGED <<loaded, view, parcels, notice, timers, debounceRef, abortRef,
                   inflight, interactions, selectedId, selectedFilter, moves,
                   loads, lastLoad, sinceMove, burstLoads, burstSize>>
    /\ UNCHANGED notViewportVars

\* 'mouseleave' of a parcel layer
MouseLeave ==
    /\ mounted
    /\ interactions > 0
    /\ hoveredId # NoId
    /\ hoveredId' = SetHover(NoId).hoveredId
    /\ hoverFilter' = SetHover(NoId).hoverFilter
    /\ UNCHANGED <<loaded, view, parcels, notice, timers, debounceRef, abortRef,
                   inflight, interactions, selectedId, selectedFilter, moves,
                   loads, lastLoad, sinceMove, burstLoads, burstSize>>
    /\ UNCHANGED notViewportVars

\* A 'select-parcel' event for parcel p arrives (SearchControl emits it when
\* /api/address/{id}/parcel has answered): handleSelectParcel.
SelectParcel(p) ==
    /\ mounted
    /\ selects < MaxSelects
    /\ selects' = selects + 1
    /\ LET st == LoadAddressesForParcel(SetSelected(PageState, p), p) IN
        /\ selectedId' = st.selectedId
        /\ selectedFilter' = st.selectedFilter
        /\ addrSrc' = st.addrSrc
        /\ mapAddrReqs' = st.mapAddrReqs
        /\ fetches' = st.fetches
    /\ selectedParcelId' = p
    /\ closed' = FALSE
    /\ UNCHANGED <<selectedAddress, bufferSrc, schoolsSrc, librariesSrc,
                   renderedParcelId, renderedAddress, tblAddresses, tblError,
                   tblReqs, schools, libraries, schoolsError, librariesError,
                   xrefReqs, clicks, rowClicks, lastXref, closes>>
    /\ UNCHANGED <<loaded, view, parcels, notice, timers, debounceRef, abortRef,
                   inflight, interactions, hoveredId, hoverFilter, moves, loads,
                   lastLoad, sinceMove, burstLoads, burstSize>>
    /\ UNCHANGED <<apiVars, tolVars, mounted, mounts, widgetVars>>

\* The page is unmounted: the cleanup of the effect (page.tsx:924-937)
\* removes the event handlers, clears the pending timer, aborts the current
\* controller and removes the map with its sources, layers and handlers; the
\* component's state and refs go with the component. The module-level
\* hoveredId and selectedId are not touched. Requests still in flight act on
\* the removed map when they are answered.
Unmount ==
    /\ mounted
    /\ mounts < MaxRemounts
    /\ mounted' = FALSE
    /\ loaded' = FALSE
    /\ parcels' = [exists |-> FALSE, data |-> EmptyFC]
    /\ notice' = FALSE
    /\ timers' = {}
    /\ inflight' = {}
    /\ debounceRef' = NoId
    /\ abortRef' = NoId
    /\ interactions' = 0
    /\ hoverFilter' = NoId
    /\ selectedFilter' = NoId
    /\ selectedParcelId' = NoId
    /\ selectedAddress' = NoAddress
    /\ addrSrc' = NoId
    /\ bufferSrc' = FALSE
    /\ schoolsSrc' = NoAddress
    /\ librariesSrc' = NoAddress
    /\ mapAddrReqs' = {}
    /\ renderedParcelId' = NoId
    /\ renderedAddress' = NoAddress
    /\ tblAddresses' = NoId
    /\ tblError' = FALSE
    /\ tblReqs' = {}
    /\ schools' = NoAddress
    /\ libraries' = NoAddress
    /\ schoolsError' = FALSE
    /\ librariesError' = FALSE
    /\ xrefReqs' = {}
    /\ UNCHANGED <<view, hoveredId, selectedId, moves, loads, lastLoad, sinceMove,
                   burstLoads, burstSize, clicks, rowClicks, fetches, lastXref,
                   closes, closed, mounts, selects>>
    /\ UNCHANGED <<apiVars, tolVars, widgetVars>>

\* The page is mounted again: the effect (page.tsx:469-923) constructs a new
\* map at zoom 12 and registers the handlers.
Mount ==
    /\ ~mounted
    /\ mounted' = TRUE
    /\ mounts' = mounts + 1
    /\ view' = InitialView
    /\ UNCHANGED <<loaded, parcels, notice, timers, debounceRef, abortRef,
                   inflight, interactions, hoveredId, hoverFilter, selectedId,
                   selectedFilter, moves, loads, lastLoad, sinceMove, burstLoads,
                   burstSize>>
    /\ UNCHANGED <<apiVars, selectVars, tolVars, selects, widgetVars>>

\* parcel loading with hover, 'select-parcel' events and a remount
HoverNext ==
    \/ MapLoad
    \/ \E v \in Views : Moveend(v)
    \/ Tick
    \/ TimerFire
    \/ \E r \in inflight : ParcelsOk(r)
    \/ \E r \in inflight : ParcelsFail(r)
    \/ \E p \in Parcels : MouseMove(p)
    \/ MouseLeave
    \/ \E p \in Parcels : SelectParcel(p)
    \/ Unmount
    \/ Mount

\* the first load of each mount with clicks, 'select-parcel' events, close
\* signals and a remount
MountNext ==
    \/ MapLoad
    \/ \E r \in inflight : ParcelsOk(r)
    \/ \E r \in inflight : ParcelsFail(r)
    \/ \E p \in Parcels : MouseMove(p)
    \/ MouseLeave
    \/ \E p \in Parcels, hits \in 1..2 : ClickParcel(p, hits)
    \/ \E p \in Parcels : SelectParcel(p)
    \/ Close
    \/ Unmount
    \/ Mount

(* ----------------------------------------------------------------------- *)
(* page.tsx and parcels/route.ts: the zoom of a request                    *)
(* ----------------------------------------------------------------------- *)

\* z.toFixed(2): the texts the zoom z (in thousandths) can be written as, as
\* thousandths. A zoom whose third decimal is 5 lies, as a binary number,
\* just below or just above the tie and is rounded accordingly.
ToFixed2(z) ==
    LET down == (z \div 10) * 10
    IN  IF z % 10 < 5 THEN {down}
        ELSE IF z % 10 > 5 THEN {down + 10}
        ELSE {down, down + 10}

\* the zoom levels the map is at when loadParcels runs: around MIN_Z in
\* steps of a thousandth, and the ends of the map's zoom range
ClientZooms ==
    ((MIN_Z * 1000 - 15)..(MIN_Z * 1000 + 15))
    \cup {0, (MIN_Z - 1) * 1000, InitialView.z, MAX_ZOOM * 1000 - 5, MAX_ZOOM * 1000}

\* The request r of the page reaches the parcels route: its URL is
\* `/api/parcels?bbox=${bbox}&z=${z.toFixed(2)}` (page.tsx:374).
ParcelsRequest(r, t) ==
    /\ r \in inflight
    /\ t \in ToFixed2(r.view.z)
    /\ ApiReceive("parcels", [DefaultInput EXCEPT !.bbox = GoodBbox, !.z = Lit(t)])

ZoomNext ==
    \/ MapLoad
    \/ \E r \in inflight, t \in 0..(MAX_ZOOM * 1000 + 10) : ParcelsRequest(r, t)
    \/ \E res \in {"ok", "other"} : ApiConnect(res)
    \/ \E res \in {"ok", "57014", "other"} : ApiStatement(res)
    \/ \E res \in {"ok", "other"} : ApiCatch(res)
    \/ ApiFinally

(* ----------------------------------------------------------------------- *)
(* SearchControl.tsx: the address search                                   *)
(* ----------------------------------------------------------------------- *)

\* the texts of the search input: blank, and two texts that are not
Blank == 0
Texts == {Blank, 1, 2}

notSearchVars == <<viewportVars, apiVars, selectVars, tolVars, pageVars,
                   nearbyVars, busVars>>

\* handleInputChange: the input's text becomes q; the pending timer is
\* cleared and a new one is set for searchAddresses(q)
InputChange(q) ==
    /\ inputs < MaxInputs
    /\ q # query
    /\ inputs' = inputs + 1
    /\ query' = q
    /\ searchTimer' = <<q>>
    /\ UNCHANGED <<searchReqs, results, searchError, latestSearch, searches>>
    /\ UNCHANGED notSearchVars

\* The debounce timer fires: searchAddresses(value), up to the fetch
SearchTimerFire ==
    /\ searchTimer # <<>>
    /\ searchTimer' = <<>>
    /\ latestSearch' = searchTimer
    /\ searchError' = FALSE
    /\ IF searchTimer[1] = Blank
         THEN /\ results' = Blank
              /\ UNCHANGED <<searchReqs, searches>>
         ELSE /\ searches' = searches + 1
              /\ searchReqs' = searchReqs \cup {[id |-> searches + 1, q |-> searchTimer[1]]}
              /\ results' = results
    /\ UNCHANGED <<query, inputs>>
    /\ UNCHANGED notSearchVars

\* The response to the /api/search request r arrives: setResults(data), or
\* setError and setResults([]) when it is not OK or the fetch failed
SearchResponse(r, ok) ==
    /\ r \in searchReqs
    /\ searchReqs' = searchReqs \ {r}
    /\ results' = IF ok THEN r.q ELSE Blank
    /\ searchError' = IF ok THEN searchError ELSE TRUE
    /\ UNCHANGED <<query, searchTimer, latestSearch, inputs, searches>>
    /\ UNCHANGED notSearchVars

SearchNext ==
    \/ \E q \in Texts : InputChange(q)
    \/ SearchTimerFire
    \/ \E r \in searchReqs, ok \in BOOLEAN : SearchResponse(r, ok)

(* ----------------------------------------------------------------------- *)
(* nearby/page.tsx: selection, the address load and the nearby view        *)
(*                                                                         *)
(* The page is taken once its map has loaded and parcels are shown, so     *)
(* that the sources "addresses", "buffer" and "nearby-points" exist.       *)
(* ----------------------------------------------------------------------- *)

notNearbyVars == <<viewportVars, apiVars, selectVars, tolVars, pageVars,
                   searchVars, busVars>>

\* One run of the click handler of setupInteractions on parcel p, from the
\* selection sel: the selection it leaves and whether it starts an address
\* load for p
NbClickHandler(sel, p) ==
    IF sel = p THEN [sel |-> NoId, load |-> FALSE]
               ELSE [sel |-> p, load |-> TRUE]

\* A click on parcel p that hits one or both of the layers parcels-fill and
\* parcels-line; the handler of each layer hit runs. The handlers return at
\* once unless getViewMode() is 'parcels'.
NbClickParcel(p, hits) ==
    /\ nbClicks < MaxNbClicks
    /\ viewMode = "parcels"
    /\ nbClicks' = nbClicks + 1
    /\ LET first == NbClickHandler(nbSelectedId, p)
           last == IF hits = 2 THEN NbClickHandler(first.sel, p) ELSE first
           started == (IF first.load THEN 1 ELSE 0)
                      + (IF hits = 2 /\ last.load THEN 1 ELSE 0)
       IN /\ nbSelectedId' = last.sel
          /\ nbSelectedParcelId' = last.sel
          \* loadAddressesForParcel(map, null) empties the source at once
          /\ nbAddresses' = IF last.sel = NoId THEN NoId ELSE nbAddresses
          /\ nbFetches' = nbFetches + started
          /\ addressLoads' = addressLoads \cup
                {[id |-> nbFetches + k, parcel |-> p] : k \in 1..started}
    /\ UNCHANGED <<viewMode, nearbyData, bufferShown, nearbyLoads, nbClears>>
    /\ UNCHANGED notNearbyVars

\* The response to the address fetch r arrives: the source takes the
\* features, and when there is a first address the callback of the click
\* handler calls handleLoadNearby, which starts the /api/nearby fetch. A
\* response that is not OK, or a failed fetch, empties the source.
AddressesLoaded(r, found) ==
    /\ r \in addressLoads
    /\ addressLoads' = addressLoads \ {r}
    /\ nbAddresses' = IF found THEN r.parcel ELSE NoId
    /\ IF found
         THEN /\ nbFetches' = nbFetches + 1
              /\ nearbyLoads' = nearbyLoads \cup
                    {[id |-> nbFetches + 1, parcel |-> r.parcel]}
         ELSE UNCHANGED <<nbFetches, nearbyLoads>>
    /\ UNCHANGED <<nbSelectedId, nbSelectedParcelId, viewMode, nearbyData,
                   bufferShown, nbClicks, nbClears>>
    /\ UNCHANGED notNearbyVars

\* The response to the /api/nearby fetch r arrives and handleLoadNearby goes
\* on: loadNearbyData gives the list, or the empty list when the fetch
\* failed; then setNearbyData, setViewMode('nearby') and updateBufferSource
HandleLoadNearby(r, ok) ==
    /\ r \in nearbyLoads
    /\ nearbyLoads' = nearbyLoads \ {r}
    /\ nearbyData' = IF ok THEN r.parcel ELSE NoId
    /\ viewMode' = "nearby"
    /\ bufferShown' = TRUE
    /\ UNCHANGED <<nbSelectedId, nbSelectedParcelId, nbAddresses, addressLoads,
                   nbClicks, nbClears, nbFetches>>
    /\ UNCHANGED notNearbyVars

\* window.clearParcelSelection, called by the close button of the popup
ClearParcelSelection ==
    /\ nbClears < MaxNbClears
    /\ nbClears' = nbClears + 1
    /\ nbSelectedId' = NoId
    /\ nbAddresses' = NoId
    /\ nbSelectedParcelId' = NoId
    /\ nearbyData' = NoId
    /\ bufferShown' = FALSE
    /\ viewMode' = "parcels"
    /\ UNCHANGED <<addressLoads, nearbyLoads, nbClicks, nbFetches>>
    /\ UNCHANGED notNearbyVars

\* The button "Back to parcels" of the nearby banner, which is rendered in
\* 'nearby' mode only
BackToParcels ==
    /\ viewMode = "nearby"
    /\ nearbyData' = NoId
    /\ viewMode' = "parcels"
    /\ bufferShown' = FALSE
    /\ UNCHANGED <<nbSelectedId, nbSelectedParcelId, nbAddresses, addressLoads,
                   nearbyLoads, nbClicks, nbClears, nbFetches>>
    /\ UNCHANGED notNearbyVars

NearbyNext ==
    \/ \E p \in Parcels, hits \in 1..2 : NbClickParcel(p, hits)
    \/ \E r \in addressLoads, found \in BOOLEAN : AddressesLoaded(r, found)
    \/ \E r \in nearbyLoads, ok \in BOOLEAN : HandleLoadNearby(r, ok)
    \/ ClearParcelSelection
    \/ BackToParcels

(* ----------------------------------------------------------------------- *)
(* lib/events.ts: the event bus                                            *)
(*                                                                         *)
(* A JavaScript Set keeps its elements in insertion order and holds each   *)
(* once; it is a sequence without repetitions here.                        *)
(* ----------------------------------------------------------------------- *)

\* two of the events, two handler functions and two payloads
Events == {"focus-address", "close-table"}
Handlers == {1, 2}
Payloads == {1, 2}

NotRegistered == [at |-> 0, ons |-> 0]

notBusVars == <<viewportVars, apiVars, selectVars, tolVars, pageVars,
                searchVars, nearbyVars>>

\* an add that keeps every insertion, as pushing on an array does
SetAddAlways(hs, h) == Append(hs, h)

\* Set.prototype.add: h goes last unless the Set holds it already
SetAdd(hs, h) ==
    IF \E k \in 1..Len(hs) : hs[k] = h THEN hs ELSE Append(hs, h)

\* Set.prototype.delete
SetDelete(hs, h) == SelectSeq(hs, LAMBDA x : x # h)

\* this.handlers.get(event), the empty sequence standing for undefined
HandlersGet(e) == IF e \in DOMAIN busHandlers THEN busHandlers[e] ELSE <<>>

\* eventBus.on(e, h)
On(e, h) ==
    /\ busOps < MaxBusOps
    /\ busOps' = busOps + 1
    /\ busHandlers' = [x \in DOMAIN busHandlers \cup {e} |->
                          IF x = e THEN SetAdd(HandlersGet(e), h)
                                   ELSE busHandlers[x]]
    /\ busClock' = busClock + 1
    /\ busRegs' = [busRegs EXCEPT ![e][h] =
                      IF @.at = 0 THEN [at |-> busClock + 1, ons |-> 1]
                                  ELSE [@ EXCEPT !.ons = @ + 1]]
    /\ UNCHANGED <<busEmitted, busCalls>>
    /\ UNCHANGED notBusVars

\* eventBus.off(e, h)
Off(e, h) ==
    /\ busOps < MaxBusOps
    /\ busOps' = busOps + 1
    /\ busHandlers' = IF e \in DOMAIN busHandlers
                        THEN [busHandlers EXCEPT ![e] = SetDelete(@, h)]
                        ELSE busHandlers
    /\ busRegs' = [busRegs EXCEPT ![e][h] = NotRegistered]
    /\ UNCHANGED <<busClock, busEmitted, busCalls>>
    /\ UNCHANGED notBusVars

\* eventBus.emit(e, d): forEach calls the handlers of e in the order of the
\* Set. The handlers of the application call neither on, off nor emit.
Emit(e, d) ==
    /\ busOps < MaxBusOps
    /\ busOps' = busOps + 1
    /\ busEmitted' = <<[e |-> e, d |-> d, regs |-> busRegs[e]]>>
    /\ busCalls' = [k \in 1..Len(HandlersGet(e)) |->
                       [h |-> HandlersGet(e)[k], d |-> d]]
    /\ UNCHANGED <<busHandlers, busRegs, busClock>>
    /\ UNCHANGED notBusVars

BusNext ==
    \/ \E e \in Events, h \in Handlers : On(e, h)
    \/ \E e \in Events, h \in Handlers : Off(e, h)
    \/ \E e \in Events, d \in Payloads : Emit(e, d)

(* ----------------------------------------------------------------------- *)
(* parcels/route.ts: the simplification tolerance                          *)
(*                                                                         *)
(* Tolerances are integers in millionths of a degree (300 is 0.0003).      *)
(* ----------------------------------------------------------------------- *)

\* toleranceForZoom with each comparison z < b read as z <= b
ToleranceForZoomInclusive(z) ==
    IF z <= 9 * 1000 THEN 300
    ELSE IF z <= 11 * 1000 THEN 100
    ELSE IF z <= 13 * 1000 THEN 50
    ELSE IF z <= 15 * 1000 THEN 20
    ELSE 5

\* parcels/route.ts:21-31
ToleranceForZoom(z) ==
    IF z < 9 * 1000 THEN 300
    ELSE IF z < 11 * 1000 THEN 100
    ELSE IF z < 13 * 1000 THEN 50
    ELSE IF z < 15 * 1000 THEN 20
    ELSE 5

\* the breakpoints of toleranceForZoom, in zoom levels
Breakpoints == {9, 11, 13, 15}

\* the zoom levels the function is given: every quarter level of the clamped
\* range, and the thousandth before and after each breakpoint
TolZooms ==
    {z \in 0..(MAX_ZOOM * 1000) : z % 250 = 0}
    \cup {b * 1000 + d : b \in Breakpoints, d \in {-1, 1}}

\* const tol = toleranceForZoom(z)  (parcels/route.ts:63)
ToleranceCall ==
    /\ tol = <<>>
    /\ tol' = <<ToleranceForZoom(tolZ)>>
    /\ UNCHANGED <<tolZ, viewportVars, apiVars, selectVars, pageVars, widgetVars>>

ToleranceNext == ToleranceCall

(* ---- specifications --------------------------------------------------- *)

\* The page has been constructed (no map event has fired yet) and the server
\* has received no request.
Start(ready, zooms, views) ==
    /\ loaded = ready
    /\ view \in views
    /\ parcels = [exists |-> ready, data |-> IF ready THEN 1 ELSE EmptyFC]
    /\ notice = FALSE
    /\ timers = {}
    /\ debounceRef = NoId
    /\ abortRef = NoId
    /\ inflight = {}
    /\ interactions = IF ready THEN 1 ELSE 0
    /\ hoveredId = NoId
    /\ hoverFilter = NoId
    /\ selectedId = NoId
    /\ selectedFilter = NoId
    /\ moves = 0
    /\ loads = IF ready THEN 1 ELSE 0
    /\ lastLoad = IF ready THEN [NoLoad EXCEPT !.id = 1, !.kind = "sent",
                                                !.gap = SinceCap, !.arrival = "ok"]
                            ELSE NoLoad
    /\ sinceMove = SinceCap
    /\ burstLoads = 0
    /\ burstSize = 0
    /\ ep = "none"
    /\ inp = DefaultInput
    /\ pc = "idle"
    /\ todo = <<>>
    /\ log = <<>>
    /\ held = FALSE
    /\ err = "none"
    /\ resp = NoResp
    /\ selectedParcelId = NoId
    /\ selectedAddress = NoAddress
    /\ addrSrc = NoId
    /\ bufferSrc = FALSE
    /\ schoolsSrc = NoAddress
    /\ librariesSrc = NoAddress
    /\ mapAddrReqs = {}
    /\ renderedParcelId = NoId
    /\ renderedAddress = NoAddress
    /\ tblAddresses = NoId
    /\ tblError = FALSE
    /\ tblReqs = {}
    /\ schools = NoAddress
    /\ libraries = NoAddress
    /\ schoolsError = FALSE
    /\ librariesError = FALSE
    /\ xrefReqs = {}
    /\ clicks = <<>>
    /\ rowClicks = 0
    /\ fetches = 0
    /\ lastXref = [addr |-> NoAddress, lib |-> "none", sch |-> "none"]
    /\ closes = 0
    /\ closed = FALSE
    /\ tolZ \in zooms
    /\ tol = <<>>
    /\ mounted = TRUE
    /\ mounts = 0
    /\ selects = 0
    /\ query = Blank
    /\ searchTimer = <<>>
    /\ searchReqs = {}
    /\ results = Blank
    /\ searchError = FALSE
    /\ latestSearch = <<>>
    /\ inputs = 0
    /\ searches = 0
    /\ nbSelectedId = NoId
    /\ nbSelectedParcelId = NoId
    /\ viewMode = "parcels"
    /\ nearbyData = NoId
    /\ bufferShown = FALSE
    /\ nbAddresses = NoId
    /\ addressLoads = {}
    /\ nearbyLoads = {}
    /\ nbClicks = 0
    /\ nbClears = 0
    /\ nbFetches = 0
    /\ busHandlers = <<>>
    /\ busRegs = [e \in Events |-> [h \in Handlers |-> NotRegistered]]
    /\ busClock = 0
    /\ busEmitted = <<>>
    /\ busCalls = <<>>
    /\ busOps = 0

\* the page as constructed
Init == Start(FALSE, {InitialView.z}, {InitialView})

\* the page once the map has loaded and the first parcels have arrived
PageReady == Start(TRUE, {InitialView.z}, {InitialView})

SpecViewport == Init /\ [][ViewportNext]_vars

SpecSelect == PageReady /\ [][SelectNext]_vars

SpecApi == Init /\ [][ApiNext]_vars

\* toleranceForZoom given one of the sampled zoom levels
ZoomGiven == Start(FALSE, TolZooms, {InitialView})

SpecTolerance == ZoomGiven /\ [][ToleranceNext]_vars

SpecHover == Init /\ [][HoverNext]_vars

SpecSearch == Init /\ [][SearchNext]_vars

SpecNearby == Init /\ [][NearbyNext]_vars

SpecBus == Init /\ [][BusNext]_vars

\* the map at one of the sampled zoom levels when its 'load' event fires
MapAtZoom == Start(FALSE, {InitialView.z}, {[InitialView EXCEPT !.z = z] : z \in ClientZooms})

\* a request of the page followed to the server and through its handler
SpecZoom == MapAtZoom /\ [][ZoomNext]_vars

SpecMount == Init /\ [][MountNext]_vars

(* ----------------------------------------------------------------------- *)
(* Claims about parcel loading (SpecViewport)                              *)
(* ----------------------------------------------------------------------- *)

\* no request is in flight and no debounce timer is pending
ViewportQuiet == inflight = {} /\ timers = {}

\* C1: whatever the order in which the responses arrive, once every response
\* has arrived the parcels source holds the result of the most recently issued
\* load (here: of a load whose request was answered with a FeatureCollection).
C1_LatestLoadShown ==
    (ViewportQuiet /\ lastLoad.kind = "sent" /\ lastLoad.arrival = "ok")
        => (parcels.exists /\ parcels.data = lastLoad.id)

\* a burst of 'moveend' events is going on: the latest one is less than
\* DEBOUNCE_MS old
BurstGoingOn == moves > 0 /\ sinceMove < DEBOUNCE_MS

\* C9 as stated: while a burst of 'moveend' events is going on loadParcels is
\* not invoked and no parcel request is sent.
C9_NothingDuringBurst ==
    [][BurstGoingOn => (loads' = loads /\ inflight' \subseteq inflight)]_vars

\* C9 as amended: a burst of 'moveend' events, each less than DEBOUNCE_MS
\* after the previous one, leads to exactly one loadParcels invocation by the
\* debounce; it happens DEBOUNCE_MS after the last event of the burst and uses
\* the viewport the map has at that time; while the burst is going on the
\* only loadParcels invocation and the only request that can occur are those
\* of the map's 'load' handler.
C9_DebounceOncePerBurst ==
    /\ [](burstLoads <= 1)
    /\ []((moves > 0 /\ sinceMove > DEBOUNCE_MS) => burstLoads = 1)
    /\ [][burstLoads' # burstLoads /\ burstLoads' # 0
            => /\ sinceMove = DEBOUNCE_MS
               /\ lastLoad'.view = view
               /\ view' = view]_vars
    /\ [][(inflight' \ inflight # {} /\ loaded' = loaded)
            => sinceMove = DEBOUNCE_MS]_vars
    /\ [][(BurstGoingOn /\ loaded' = loaded)
            => (loads' = loads /\ inflight' \subseteq inflight)]_vars

\* C9 witness: a burst of at least two 'moveend' events has been answered by
\* its one debounced load, DEBOUNCE_MS after the last of them.
C9_Witness ==
    burstSize >= 2 /\ burstLoads = 1 /\ lastLoad.gap = DEBOUNCE_MS

\* C10: a loadParcels run at zoom < MIN_Z sends no request, leaves the parcels
\* source (when there is one) empty and shows the zoom-in notice; the notice is
\* hidden only by a loadParcels run at zoom >= MIN_Z.
C10_LowZoomClears ==
    /\ [][(loads' = loads + 1 /\ view.z < MIN_Z * 1000)
            => /\ inflight' \subseteq inflight
               /\ parcels'.exists => parcels'.data = EmptyFC
               /\ notice']_vars
    /\ [][(notice /\ ~notice')
            => (loads' = loads + 1 /\ view.z >= MIN_Z * 1000)]_vars

\* C10 witness: a loadParcels run below MIN_Z has emptied a parcels source
\* that an earlier load had filled, and the notice is shown.
C10_Witness ==
    /\ notice
    /\ lastLoad.kind = "cleared"
    /\ parcels.exists /\ parcels.data = EmptyFC
    /\ lastLoad.view.z < MIN_Z * 1000


\* C11: once a load below MIN_Z has cleared the parcel layer, and as long as
\* no later load has run, the layer shows no parcels: the response of a
\* request issued earlier at zoom >= MIN_Z is never applied after the clear.
C11_ClearedStaysEmpty ==
    lastLoad.kind = "cleared" => (parcels.exists => parcels.data = EmptyFC)

\* C18 (parcels): when the request of the latest load ends with a non-OK
\* status or an error that is not an abort, the parcels source is empty.
C18_FailureLeavesEmpty ==
    [][(lastLoad'.id = lastLoad.id /\ lastLoad.arrival = "none"
            /\ lastLoad'.arrival = "fail")
          => (parcels'.exists => parcels'.data = EmptyFC)]_vars

(* ----------------------------------------------------------------------- *)
(* Claims about the HTTP endpoints (SpecApi)                               *)
(* ----------------------------------------------------------------------- *)

\* the positions of the log at which operation op was issued
LogAt(op) == {k \in 1..Len(log) : log[k].op = op}

\* the handler acquired a connection
Acquired == \E k \in LogAt("connect") : log[k].res = "ok"

\* the text of the parameter is a decimal numeral: present and finite
IsNumeral(tok) == tok.t = "lit"

\* the bbox parameter consists of four numerals
FourNumerals(bbox) == Len(bbox) = 4 /\ \A k \in 1..Len(bbox) : IsNumeral(bbox[k])

\* C4: when the request has ended, a connection that was acquired has been
\* released exactly once, after the last statement issued on it, and the
\* handler holds no connection.
C4_ReleasedExactlyOnce ==
    (pc = "done" /\ Acquired)
        => /\ ~held
           /\ Cardinality(LogAt("release")) = 1
           /\ log[Len(log)].op = "release"

\* the request is a bbox request (parcels, or addresses without parcel_id)
\* with a valid bbox and a clamped zoom below 10
LowZoomBboxRequest(e) ==
    /\ ep = e
    /\ ParseZoom(inp.z) < 10 * 1000
    /\ FourNumerals(inp.bbox)
    /\ e = "addresses" => inp.pid.t = "absent"

\* C5 as stated: for zoom < 10 the parcels endpoint and the bbox-mode
\* addresses endpoint answer with an empty FeatureCollection and make no
\* backend call (no connection acquired, no statement sent).
C5_LowZoomEmptyWithoutBackend ==
    (pc = "done" /\ (LowZoomBboxRequest("parcels") \/ LowZoomBboxRequest("addresses")))
        => (resp = Resp(200, "emptyFC") /\ log = <<>>)

\* C5 as amended: for zoom < 10 the parcels endpoint answers 400 "Zoom in to
\* load parcels" without acquiring a connection; the bbox-mode addresses
\* endpoint sends no query: on its connection it issues only BEGIN, SET LOCAL
\* statement_timeout and COMMIT, and it answers 200 with an empty
\* FeatureCollection when these succeed.
C5_LowZoomNoQuery ==
    /\ LowZoomBboxRequest("parcels")
          => /\ log = <<>>
             /\ pc = "done" /\ resp = Resp(400, "Zoom in to load parcels")
    /\ LowZoomBboxRequest("addresses")
          => /\ LogAt("QUERY") = {}
             /\ (pc = "done" /\ resp.status = 200) => resp.body = "emptyFC"
             /\ (pc = "done" /\ \A k \in 1..Len(log) : log[k].res = "ok")
                   => /\ resp = Resp(200, "emptyFC")
                      /\ [k \in 1..Len(log) |-> log[k].op]
                            = <<"connect", "BEGIN", "SET", "COMMIT", "release">>

\* C5 witness: a bbox-mode addresses request at zoom < 10 has been answered
\* with an empty FeatureCollection after BEGIN, SET and COMMIT.
C5_Witness ==
    /\ LowZoomBboxRequest("addresses")
    /\ pc = "done"
    /\ resp = Resp(200, "emptyFC")
    /\ Len(log) = 5

\* C6: GET /parcels answers 400 for a missing or malformed bbox (checked before
\* the zoom), 400 "Zoom in to load parcels" for a valid bbox with zoom < 10,
\* both without acquiring a connection; 504 after a statement timeout, 500
\* after any other database error, and 200 with a FeatureCollection otherwise.
C6_ParcelsStatus ==
    (ep = "parcels" /\ pc = "done")
        => IF ~FourNumerals(inp.bbox)
             THEN /\ resp.status = 400 /\ log = <<>>
                  /\ Len(inp.bbox) # 4
                        => resp.body = "bbox=minX,minY,maxX,maxY required"
           ELSE IF ParseZoom(inp.z) < 10 * 1000
             THEN resp = Resp(400, "Zoom in to load parcels") /\ log = <<>>
           ELSE IF \E k \in 1..Len(log) : log[k].res = "57014"
             THEN resp.status = 504
           ELSE IF \E k \in 1..Len(log) : log[k].res = "other"
             THEN resp.status = 500
           ELSE resp.status = 200 /\ resp.body \in {"FC", "emptyFC"}

\* query k of the log runs in a transaction that was begun, and in which a
\* statement_timeout of 2500 to 3000 ms was set, before it
InTimedTransaction(k) ==
    \E b \in 1..(k - 1) :
        /\ log[b].op = "BEGIN" /\ log[b].res = "ok"
        /\ \A m \in (b + 1)..(k - 1) : log[m].op \notin {"COMMIT", "ROLLBACK", "BEGIN"}
        /\ \E m \in (b + 1)..(k - 1) :
              log[m].op = "SET" /\ log[m].res = "ok" /\ log[m].ms \in 2500..3000

\* C7: every query of the parcels, addresses, parcel-addresses, address-parcel,
\* search, nearest-schools, libraries-and-schools, nearby and snap-to-road
\* endpoints runs in a transaction with a statement_timeout of 2500 to 3000 ms
\* set before it.
C7_QueriesInTimedTransaction ==
    ep # "db" => \A k \in LogAt("QUERY") : InTimedTransaction(k)

\* the request was rejected with 400 before any connection was acquired
Rejected400 == pc = "done" /\ resp.status = 400 /\ log = <<>>

\* C8: a lat/lng endpoint rejects a request with 400, without a query, exactly
\* when lat or lng is missing or not a finite number (0 is a finite number);
\* a bbox endpoint rejects the bbox exactly when it does not consist of four
\* finite numbers.
C8_RejectedIffNotFinite ==
    /\ (pc # "idle" /\ ep \in {"nearestSchools", "nearest5", "libSchools", "snap",
                              "nearby"})
          => (Rejected400 <=> ~(IsNumeral(inp.lat) /\ IsNumeral(inp.lng)))
    /\ (pc # "idle" /\ ep = "parcels")
          => ((Rejected400 /\ resp.body = "bbox=minX,minY,maxX,maxY required")
                <=> ~FourNumerals(inp.bbox))
    /\ (pc # "idle" /\ ep = "addresses" /\ inp.pid.t = "absent")
          => (Rejected400 <=> ~FourNumerals(inp.bbox))


\* the parcel_id parameter is the numeral of a positive number
PositiveId(pid) == IsNumeral(pid) /\ pid.v > 0

\* the queries of the log that are one of the named ones
QueriesNamed(names) == {k \in LogAt("QUERY") : log[k].q \in names}

\* the request has ended and none of its statements failed
EndedCleanly == pc = "done" /\ \A k \in 1..Len(log) : log[k].res = "ok"

\* C20: GET /addresses answers 400, without acquiring a connection, when
\* neither a valid parcel_id nor a valid bbox is given; with a valid parcel_id
\* it runs the parcel-scoped query whatever the zoom and never the bbox
\* query; with only a valid bbox it runs the bbox query when the zoom is at
\* least 12 and otherwise sends no query and answers 200 with an empty
\* FeatureCollection.
C20_AddressesModes ==
    ep = "addresses"
        => LET byParcel == PositiveId(inp.pid)
               byBbox == FourNumerals(inp.bbox)
               parcelQ == QueriesNamed({"precomputed", "spatialJoin"})
               bboxQ == QueriesNamed({"bbox"})
           IN  /\ (~byParcel /\ ~byBbox)
                     => /\ log = <<>>
                        /\ pc = "done"
                              => resp = Resp(400, "Either parcel_id or bbox is required")
               /\ byParcel
                     => /\ bboxQ = {}
                        /\ EndedCleanly => (parcelQ # {} /\ resp.status = 200)
               /\ (~byParcel /\ byBbox /\ ParseZoom(inp.z) >= 12 * 1000)
                     => /\ parcelQ = {}
                        /\ EndedCleanly => (bboxQ # {} /\ resp.status = 200)
               /\ (~byParcel /\ byBbox /\ ParseZoom(inp.z) < 12 * 1000)
                     => /\ LogAt("QUERY") = {}
                        /\ EndedCleanly => resp = Resp(200, "emptyFC")

\* the entries of the log that are the failed enhanced query
FailedEnhanced == {k \in QueriesNamed({"enhanced"}) : log[k].res # "ok"}

\* entry k of the log exists, is statement op, and succeeded
OkAt(k, op) == k \in 1..Len(log) /\ log[k].op = op /\ log[k].res = "ok"

\* after the failed enhanced query at e the handler issues ROLLBACK, BEGIN,
\* SET LOCAL statement_timeout = '2500 ms' and the basic query, each once the
\* one before it has succeeded
FallbackFollows(e) ==
    /\ Len(log) > e => log[e + 1].op = "ROLLBACK"
    /\ (Len(log) > e + 1 /\ OkAt(e + 1, "ROLLBACK")) => log[e + 2].op = "BEGIN"
    /\ (Len(log) > e + 2 /\ OkAt(e + 2, "BEGIN"))
          => (log[e + 3].op = "SET" /\ log[e + 3].ms = 2500)
    /\ (Len(log) > e + 3 /\ OkAt(e + 3, "SET"))
          => (log[e + 4].op = "QUERY" /\ log[e + 4].q = "basic")
    /\ (pc = "done" /\ OkAt(e + 1, "ROLLBACK") /\ OkAt(e + 2, "BEGIN")
          /\ OkAt(e + 3, "SET")) => QueriesNamed({"basic"}) = {e + 4}

\* C21: in GET /parcel/{id}/addresses a failure of the enhanced query, for
\* whatever reason, is followed by ROLLBACK, a fresh BEGIN, SET LOCAL
\* statement_timeout and the basic query in that transaction; the basic query
\* is issued at most once per request and only after a failed enhanced query;
\* when the basic query fails no further query is sent and the request ends
\* with 504 (timeout) or 500.
C21_FallbackOnce ==
    ep = "parcelAddresses"
        => /\ Cardinality(QueriesNamed({"enhanced"})) <= 1
           /\ Cardinality(QueriesNamed({"basic"})) <= 1
           /\ \A e \in FailedEnhanced : FallbackFollows(e)
           /\ \A b \in QueriesNamed({"basic"}) :
                 /\ (b - 4) \in FailedEnhanced
                 /\ OkAt(b - 3, "ROLLBACK") /\ OkAt(b - 2, "BEGIN") /\ OkAt(b - 1, "SET")
                 /\ log[b].res # "ok"
                       => /\ \A k \in LogAt("QUERY") : k <= b
                          /\ pc = "done"
                                => /\ resp.status \in {500, 504}
                                   /\ resp.status = 504 => log[b].res = "57014"
                                   /\ (log[b].res = "57014" /\ OkAt(b + 1, "ROLLBACK"))
                                         => resp.status = 504

\* C21 witness: the enhanced query failed, the basic query ran in a fresh
\* transaction and timed out, and the request ended with 504
C21_Witness ==
    /\ ep = "parcelAddresses" /\ pc = "done"
    /\ \E e \in FailedEnhanced :
          /\ OkAt(e + 1, "ROLLBACK") /\ OkAt(e + 2, "BEGIN") /\ OkAt(e + 3, "SET")
          /\ (e + 4) \in QueriesNamed({"basic"}) /\ log[e + 4].res = "57014"
    /\ resp.status = 504

\* the bbox the handler of this request hands to its query
QueryBbox == IF ep = "parcels" THEN ParseBbox(inp.bbox) ELSE AddressesParseBbox(inp.bbox)

\* C24: a viewport that reaches the query of /parcels or the bbox query of
\* /addresses has a zoom between 0 and 22 and, its bbox being four numerals,
\* minX < maxX and minY < maxY; a bbox that violates the ordering does not
\* reach the query.
C24_QueryViewportOrdered ==
    (ep \in {"parcels", "addresses"} /\ QueriesNamed({"parcels", "bbox"}) # {})
        => /\ ParseZoom(inp.z) \in 0..(MAX_ZOOM * 1000)
           /\ FourNumerals(inp.bbox)
                 => /\ QueryBbox[1].v < QueryBbox[3].v
                    /\ QueryBbox[2].v < QueryBbox[4].v

(* ----------------------------------------------------------------------- *)
(* Claims about the zoom of a request (SpecZoom)                           *)
(* ----------------------------------------------------------------------- *)

\* C28: every /api/parcels request the page sends, its zoom written with
\* toFixed(2), is parsed by the server to a zoom of at least 10 and is never
\* answered with 400 "Zoom in to load parcels".
C28_ThresholdsAgree ==
    ep = "parcels"
        => /\ ParseZoom(inp.z) >= 10 * 1000
           /\ resp # Resp(400, "Zoom in to load parcels")

\* C28 witness: a request sent at a zoom just above MIN_Z, written as
\* "10.00", has been answered with 200
C28_Witness ==
    /\ ep = "parcels" /\ pc = "done" /\ resp.status = 200
    /\ view.z > MIN_Z * 1000 /\ inp.z = Lit(10 * 1000)

(* ----------------------------------------------------------------------- *)
(* Claims about the simplification tolerance (SpecTolerance)               *)
(* ----------------------------------------------------------------------- *)

\* C19: over the clamped range [0, 22] toleranceForZoom returns exactly the
\* documented tiers (z<9: 0.0003, z<11: 0.0001, z<13: 0.00005, z<15: 0.00002,
\* otherwise 0.000005), never returns more for a higher zoom than for a lower
\* one, and at z = 9, 11, 13, 15 returns the tier of the zooms just above.
C19_ToleranceTiers ==
    tol # <<>>
        => /\ tolZ < 9 * 1000 => tol[1] = 300
           /\ (9 * 1000 <= tolZ /\ tolZ < 11 * 1000) => tol[1] = 100
           /\ (11 * 1000 <= tolZ /\ tolZ < 13 * 1000) => tol[1] = 50
           /\ (13 * 1000 <= tolZ /\ tolZ < 15 * 1000) => tol[1] = 20
           /\ 15 * 1000 <= tolZ => tol[1] = 5
           /\ \A z \in TolZooms : z >= tolZ => ToleranceForZoom(z) <= tol[1]
           /\ tolZ \in {b * 1000 : b \in Breakpoints}
                 => /\ tol[1] = ToleranceForZoom(tolZ + 1)
                    /\ tol[1] < ToleranceForZoom(tolZ - 1)

\* C19 witness: the function has returned for a zoom that is a breakpoint
C19_Witness == tol # <<>> /\ tolZ = 13 * 1000 /\ tol[1] = 20

(* ----------------------------------------------------------------------- *)
(* Selection and cross-reference (SpecSelect)                              *)
(* ----------------------------------------------------------------------- *)

\* no address fetch is in flight and AddressTable has rendered the page state
AddressesQuiet ==
    /\ mapAddrReqs = {}
    /\ tblReqs = {}
    /\ renderedParcelId = selectedParcelId

\* C2: after a click on parcel X followed by a click on a different parcel Y
\* (each hitting one layer), once every address response has arrived, Y is
\* selected and both the "addresses" source and AddressTable hold the
\* addresses of Y and of no other parcel, whatever order the responses came in.
C2_LatestClickAddresses ==
    (/\ Len(clicks) = 2
     /\ clicks[1].p # clicks[2].p
     /\ clicks[1].hits = 1 /\ clicks[2].hits = 1
     /\ AddressesQuiet)
        => /\ selectedId = clicks[2].p
           /\ selectedParcelId = clicks[2].p
           /\ addrSrc \in {NoId, clicks[2].p}
           /\ tblAddresses \in {NoId, clicks[2].p}

\* C3: when the request for the selected address has been answered with the
\* libraries query succeeding and the schools query failing, the libraries
\* panel shows the libraries of that address without an error and only the
\* schools panel shows an error.
C3_PanelsIndependent ==
    (/\ xrefReqs = {}
     /\ lastXref.addr # NoAddress
     /\ lastXref.addr = renderedAddress
     /\ lastXref.lib = "ok"
     /\ lastXref.sch \notin {"ok", "none"})
        => /\ libraries = lastXref.addr
           /\ ~librariesError
           /\ schoolsError


\* the page is Unselected: no parcel is selected on the map or in the page state
Unselected ==
    selectedId = NoId /\ selectedFilter = NoId /\ selectedParcelId = NoId

\* this step is a click of the user on a parcel
IsClick == Len(clicks') = Len(clicks) + 1

\* the click of this step, and the number of handler runs it causes
ThisClick == clicks'[Len(clicks')]
HandlerRuns == ThisClick.hits * interactions

\* C12: one click on a parcel while the page is Unselected leaves that parcel
\* selected (on the map and in the page state) and starts exactly one address
\* load, whichever parcel layers the click hits.
C12_ClickSelects ==
    [][(IsClick /\ Unselected)
          => /\ selectedId' = ThisClick.p
             /\ selectedFilter' = ThisClick.p
             /\ selectedParcelId' = ThisClick.p
             /\ Cardinality(mapAddrReqs' \ mapAddrReqs) = 1]_vars

ToggleOffClick == IsClick /\ HandlerRuns = 1 /\ selectedId = ThisClick.p

\* C14: a click on the selected parcel while one of its addresses is selected
\* and the schools and libraries of that address are on the map clears
\* everything that depends on the selection: selectedAddress and the
\* addresses, schools, school-lines, libraries, library-lines and buffer
\* sources.
C14_ToggleOffClearsAll ==
    [][(/\ ToggleOffClick
        /\ selectedAddress # NoAddress
        /\ selectedAddress.p = selectedId
        /\ schoolsSrc = selectedAddress
        /\ librariesSrc = selectedAddress)
          => /\ selectedAddress' = NoAddress
             /\ addrSrc' = NoId
             /\ schoolsSrc' = NoAddress
             /\ librariesSrc' = NoAddress
             /\ ~bufferSrc']_vars

\* a and b are the same address (possibly different row objects)
SameAddress(a, b) == a.p = b.p /\ a.n = b.n

\* AddressTable has rendered the page state and no request for schools and
\* libraries is in flight
XrefQuiet ==
    /\ xrefReqs = {}
    /\ renderedParcelId = selectedParcelId
    /\ renderedAddress = selectedAddress

\* no address of the selected parcel is chosen
NoCurrentAddress ==
    selectedAddress = NoAddress \/ selectedAddress.p # selectedParcelId

\* C15: a click on a different parcel Y while parcel X and one of X's
\* addresses are selected sets selectedAddress to null and empties the schools
\* and libraries map layers; and as long as no address of the selected parcel
\* is chosen the schools and libraries panels and map layers are empty once
\* the table has rendered and no request is in flight.
C15_OtherParcelClearsXref ==
    /\ [][(/\ IsClick /\ HandlerRuns = 1
           /\ selectedId # NoId /\ selectedId # ThisClick.p
           /\ selectedAddress # NoAddress /\ selectedAddress.p = selectedId)
             => /\ selectedAddress' = NoAddress
                /\ schoolsSrc' = NoAddress
                /\ librariesSrc' = NoAddress]_vars
    /\ []((selectedParcelId # NoId /\ NoCurrentAddress /\ XrefQuiet)
             => /\ schools = NoAddress /\ libraries = NoAddress
                /\ schoolsSrc = NoAddress /\ librariesSrc = NoAddress)

\* C16: from a close signal until the next selection of the user the page is
\* Unselected, selectedAddress is null and the addresses, schools, libraries
\* and buffer sources are empty, whatever responses arrive meanwhile.
C16_ClosedStaysClear ==
    closed => /\ Unselected
              /\ selectedAddress = NoAddress
              /\ addrSrc = NoId
              /\ schoolsSrc = NoAddress
              /\ librariesSrc = NoAddress
              /\ ~bufferSrc

\* C17: after two address selections, once the table has rendered and every
\* response has arrived, the schools and libraries panels and map layers show
\* nothing or the results of the address selected last, never those of the
\* earlier one.
C17_LatestAddressShown ==
    (rowClicks = 2 /\ selectedAddress.c = 2 /\ closes = 0 /\ XrefQuiet)
        => \A shown \in {schools, libraries, schoolsSrc, librariesSrc} :
              shown = NoAddress \/ SameAddress(shown, selectedAddress)

(* ----------------------------------------------------------------------- *)
(* Claims about hover, reloads and the life of the page                    *)
(* (SpecHover, SpecMount)                                                  *)
(* ----------------------------------------------------------------------- *)

\* this step reloads the geometry of the existing "parcels" source with the
\* data a fetch returned (page.tsx:386-387)
Reloaded ==
    /\ parcels.exists /\ parcels'.exists
    /\ parcels'.data # parcels.data
    /\ parcels'.data # EmptyFC

\* C22: every reload of the geometry of the parcels source leaves selectedId
\* as it was and, when selectedId is not null, leaves the 'parcels-selected'
\* filter selecting exactly selectedId, whatever the new data contain.
C22_ReloadKeepsSelection ==
    [][Reloaded => /\ selectedId' = selectedId
                   /\ selectedId' # NoId => selectedFilter' = selectedId']_vars

\* C22 witness: a parcel was selected, the page was mounted again (its new
\* 'parcels-selected' layer is created matching nothing), and a reload has
\* made the filter select selectedId
C22_Witness ==
    /\ mounted /\ mounts = 1
    /\ selectedId # NoId /\ selectedParcelId = NoId
    /\ parcels.exists /\ parcels.data # EmptyFC
    /\ selectedFilter = selectedId

\* C23: while the parcel layers exist the 'parcels-hover' filter matches
\* hoveredId when it is not null and nothing otherwise (so at most one parcel
\* is hovered); hoveredId is null after a mouse-leave and after every reload
\* of the geometry; no step that changes hoveredId changes selectedId.
C23_HoverExclusive ==
    /\ [](parcels.exists => hoverFilter = hoveredId)
    /\ [][(MouseLeave \/ Reloaded) => hoveredId' = NoId]_vars
    /\ [][hoveredId' # hoveredId => selectedId' = selectedId]_vars

\* C25: as long as the page has been mounted once, after any sequence of
\* parcel clicks, 'select-parcel' events and close signals the module-level
\* selectedId equals the React state selectedParcelId, also when a
\* 'select-parcel' event arrives before the parcels source exists.
C25_SelectionInSync ==
    (mounted /\ mounts = 0) => selectedId = selectedParcelId

\* the click of this step is the first one on the data of this mount, and
\* the page's state says that no parcel is selected
FirstClickOfMount ==
    /\ IsClick
    /\ \A k \in 1..Len(clicks) : clicks[k].data # parcels.data
    /\ selectedParcelId = NoId

\* C26: every mount of the page starts with selectedId and hoveredId null,
\* so that the first click of a mount on a parcel, hitting one layer, selects
\* that parcel and the 'parcels-selected' filter matches it.
C26_MountStartsUnselected ==
    /\ [][(~mounted /\ mounted') => (selectedId' = NoId /\ hoveredId' = NoId)]_vars
    /\ [][(FirstClickOfMount /\ ThisClick.hits = 1)
              => (selectedId' = ThisClick.p /\ selectedFilter' = ThisClick.p)]_vars

(* ----------------------------------------------------------------------- *)
(* Claims about the address search (SpecSearch)                            *)
(* ----------------------------------------------------------------------- *)

\* no timer is pending and no /api/search request awaits its response
SearchQuiet == searchTimer = <<>> /\ searchReqs = {}

\* C27: once every response has arrived the results shown are those of the
\* most recently started search (or none, when that search failed); a
\* response to an earlier search never replaces the results of a later one;
\* and after a search for a blank input the results stay empty until another
\* search is started.
C27_LatestSearchShown ==
    /\ [](latestSearch = <<Blank>> => results = Blank)
    /\ []((SearchQuiet /\ latestSearch # <<>>) => results \in {Blank, latestSearch[1]})
    /\ [][(latestSearch # <<>> /\ results = latestSearch[1]
             /\ latestSearch' = latestSearch)
              => results' \in {results, Blank}]_vars

(* ----------------------------------------------------------------------- *)
(* Claims about the nearby page (SpecNearby)                               *)
(* ----------------------------------------------------------------------- *)

\* C29: on the nearby page the view mode is 'nearby' only while a parcel is
\* selected: a step that deselects the parcel (a click on it, or
\* clearParcelSelection) leaves the mode 'parcels' with empty nearby data and
\* no buffer, and while no parcel is selected no step, a late response of the
\* address load or of /api/nearby included, switches the mode to 'nearby'.
C29_NearbyOnlyWhileSelected ==
    /\ [](viewMode = "nearby" => nbSelectedParcelId # NoId)
    /\ [][(nbSelectedParcelId # NoId /\ nbSelectedParcelId' = NoId)
            => /\ viewMode' = "parcels"
               /\ nearbyData' = NoId
               /\ ~bufferShown']_vars
    /\ [][(nbSelectedParcelId = NoId /\ nbSelectedParcelId' = NoId)
            => viewMode' = viewMode]_vars

(* ----------------------------------------------------------------------- *)
(* Claims about the event bus (SpecBus)                                    *)
(* ----------------------------------------------------------------------- *)

\* the handlers registered in regs
Registered(regs) == {h \in Handlers : regs[h].at # 0}

\* C30: the latest emit(e, d) called exactly the handlers that were registered
\* for e with on and not removed with off since, each once, each with the
\* payload d, in the order of their registrations; a handler registered
\* twice is called once, and a handler registered for another event only, or
\* removed with off, is not called.
C30_EmitCallsRegistered ==
    busEmitted # <<>> =>
        LET regs == busEmitted[1].regs
        IN /\ Len(busCalls) = Cardinality(Registered(regs))
           /\ \A h \in Registered(regs) :
                 \E k \in 1..Len(busCalls) : busCalls[k].h = h
           /\ \A k \in 1..Len(busCalls) :
                 /\ busCalls[k].h \in Registered(regs)
                 /\ busCalls[k].d = busEmitted[1].d
           /\ \A j, k \in 1..Len(busCalls) :
                 j < k => regs[busCalls[j].h].at < regs[busCalls[k].h].at

\* an emit called two handlers, the second of them registered twice, while a
\* handler was registered for the other event
C30_Witness ==
    /\ busEmitted # <<>>
    /\ Len(busCalls) = 2
    /\ busEmitted[1].regs[busCalls[2].h].ons = 2
    /\ \E e \in Events \ {busEmitted[1].e} : Registered(busRegs[e]) # {}

====
